---- MODULE Spec2Model ----
(***************************************************************************)
(* Task prioritization engine, project progress calculator and the         *)
(* notification service of the agenda application.                         *)
(*                                                                         *)
(* Time is counted in whole hours since an epoch (UTC).  A date is a day   *)
(* number.  Optional values (fecha_asignada, fecha_fin_estimada, proyecto, *)
(* tarea_relacionada, proyecto_relacionado) use None.  Scores are the      *)
(* float scores of the code; every score the engine can produce is a whole *)
(* number (10.0, 8.0, 6.0, 4.0, 2.0 plus bonuses 2.0 and 1.0), so they are *)
(* kept as integers.                                                       *)
(***************************************************************************)
EXTENDS Integers, Sequences, FiniteSets, TLC

VARIABLES
    now,            \* timezone.now(), hours since the epoch (UTC)
    tareas,         \* table Tarea: sequence of rows, id = position
    proyectos,      \* table Proyecto: sequence of rows, id = position
    notifications,  \* table Notification: sequence of rows in creation order
    returned,       \* list returned by the last generate_* call
    score_result,   \* list of TaskPriorityScore returned by the last engine call
    urgency_result, \* triple returned by the last _calculate_urgency_score call
    important_result, \* value returned by the last _is_important_project call
    progress_result,  \* dict returned by the last calculate_advanced_progress call
    zones,          \* the three task zones built by the last dashboard request
    lastOp,         \* the last operation and its arguments
    wpc,            \* concurrent requests: position of each worker
    wloc            \* concurrent requests: locals of each worker

vars == <<now, tareas, proyectos, notifications, returned, score_result,
          urgency_result, important_result, progress_result, zones, lastOp, wpc,
          wloc>>

-----------------------------------------------------------------------------
(* Bounds of the model *)

StartDay == 20          \* day number of the first instant of every behaviour
TickHours == 6          \* hours by which the clock advances in one step
MaxTicks == 5           \* clock steps in one behaviour of the store
MaxTareas == 2          \* rows of Tarea in the store
MaxProyectos == 1       \* rows of Proyecto in the store
MaxNotifications == 2   \* rows of Notification in the store
MaxDueDays == 16        \* due dates range over today - MaxDueDays .. today + MaxDueDays
MaxAgeDays == 10        \* task ages range over 0 .. MaxAgeDays days
MaxFill == 4            \* other tasks of the project of a scored task: 0 .. MaxFill
MaxPrioTareas == 3      \* tasks handed to prioritize_tasks
NumWorkers == 2         \* concurrent requests
MaxDetailTareas == 3    \* tasks of a project whose tasks vary in every field
MaxOrderTareas == 7     \* tasks of a project whose tasks vary in state and order
MaxBulk == 23           \* completed, and pending, tasks of a large project
MaxLargeProject == 203  \* tasks of the largest project
MaxDaysPassed == 3      \* days that pass while one task is scored again and again

None == 0
Users == {1, 2}
Titulos == {"a", "b"}
ESTADO_CHOICES == {"planificado", "en_curso", "completado", "en_espera", "cancelado"}

-----------------------------------------------------------------------------
(* Clock and calendar *)

HoursPerDay == 24

\* TIME_ZONE = 'America/Bogota' (UTC-5, no daylight saving)
UTC_OFFSET == 0 - 5

\* timezone.now().date(), and datetime.date() of a stored (UTC) timestamp
UtcDate(t) == t \div HoursPerDay

\* timezone.localdate(), and the date the __date lookup extracts (USE_TZ)
LocalDate(t) == (t + UTC_OFFSET) \div HoursPerDay

StartNow == StartDay * HoursPerDay

-----------------------------------------------------------------------------
(* TaskPrioritizationEngine *)

OVERDUE_SCORE == 10
DUE_TODAY_SCORE == 8
DUE_THIS_WEEK_SCORE == 6
DUE_NEXT_WEEK_SCORE == 4
NO_DEADLINE_SCORE == 2
IMPORTANT_PROJECT_BONUS == 2
OLD_TASK_BONUS == 1
DAYS_THRESHOLD_OLD_TASK == 7

Abs(n) == IF n < 0 THEN 0 - n ELSE n

\* A reason string: its fixed text and the number formatted into it (None if none)
Reason(text, n) == [text |-> text, n |-> n]

\* The classifier with the week boundary excluded (days_diff < 7)
_calculate_urgency_score_week_exclusive(tarea, today) ==
    IF tarea.fecha_asignada = None
    THEN [urgency |-> "no_deadline", score |-> NO_DEADLINE_SCORE,
          reason |-> Reason("Sin fecha limite", None)]
    ELSE LET days_diff == tarea.fecha_asignada - today IN
         IF days_diff < 0
         THEN [urgency |-> "overdue", score |-> OVERDUE_SCORE,
               reason |-> Reason("Vencida hace {} dias", Abs(days_diff))]
         ELSE IF days_diff = 0
         THEN [urgency |-> "due_today", score |-> DUE_TODAY_SCORE,
               reason |-> Reason("Vence hoy", None)]
         ELSE IF days_diff < 7
         THEN [urgency |-> "due_this_week", score |-> DUE_THIS_WEEK_SCORE,
               reason |-> Reason("Vence en {} dias", days_diff)]
         ELSE IF days_diff <= 14
         THEN [urgency |-> "due_next_week", score |-> DUE_NEXT_WEEK_SCORE,
               reason |-> Reason("Vence en {} dias", days_diff)]
         ELSE [urgency |-> "no_deadline", score |-> NO_DEADLINE_SCORE,
               reason |-> Reason("Vence en {} dias", days_diff)]

\* The classifier with a task due yesterday not yet counted as overdue
\* (days_diff < -1)
_calculate_urgency_score_overdue_late(tarea, today) ==
    IF tarea.fecha_asignada = None
    THEN [urgency |-> "no_deadline", score |-> NO_DEADLINE_SCORE,
          reason |-> Reason("Sin fecha limite", None)]
    ELSE LET days_diff == tarea.fecha_asignada - today IN
         IF days_diff < 0 - 1
         THEN [urgency |-> "overdue", score |-> OVERDUE_SCORE,
               reason |-> Reason("Vencida hace {} dias", Abs(days_diff))]
         ELSE IF days_diff <= 0
         THEN [urgency |-> "due_today", score |-> DUE_TODAY_SCORE,
               reason |-> Reason("Vence hoy", None)]
         ELSE IF days_diff <= 7
         THEN [urgency |-> "due_this_week", score |-> DUE_THIS_WEEK_SCORE,
               reason |-> Reason("Vence en {} dias", days_diff)]
         ELSE IF days_diff <= 14
         THEN [urgency |-> "due_next_week", score |-> DUE_NEXT_WEEK_SCORE,
               reason |-> Reason("Vence en {} dias", days_diff)]
         ELSE [urgency |-> "no_deadline", score |-> NO_DEADLINE_SCORE,
               reason |-> Reason("Vence en {} dias", days_diff)]

\* The classifier that gives up a task overdue by more than 14 days
_calculate_urgency_score_stale_overdue(tarea, today) ==
    IF tarea.fecha_asignada = None
    THEN [urgency |-> "no_deadline", score |-> NO_DEADLINE_SCORE,
          reason |-> Reason("Sin fecha limite", None)]
    ELSE LET days_diff == tarea.fecha_asignada - today IN
         IF days_diff < 0 - 14
         THEN [urgency |-> "no_deadline", score |-> NO_DEADLINE_SCORE,
               reason |-> Reason("Vencida hace {} dias", Abs(days_diff))]
         ELSE IF days_diff < 0
         THEN [urgency |-> "overdue", score |-> OVERDUE_SCORE,
               reason |-> Reason("Vencida hace {} dias", Abs(days_diff))]
         ELSE IF days_diff = 0
         THEN [urgency |-> "due_today", score |-> DUE_TODAY_SCORE,
               reason |-> Reason("Vence hoy", None)]
         ELSE IF days_diff <= 7
         THEN [urgency |-> "due_this_week", score |-> DUE_THIS_WEEK_SCORE,
               reason |-> Reason("Vence en {} dias", days_diff)]
         ELSE IF days_diff <= 14
         THEN [urgency |-> "due_next_week", score |-> DUE_NEXT_WEEK_SCORE,
               reason |-> Reason("Vence en {} dias", days_diff)]
         ELSE [urgency |-> "no_deadline", score |-> NO_DEADLINE_SCORE,
               reason |-> Reason("Vence en {} dias", days_diff)]

_calculate_urgency_score(tarea, today) ==
    IF tarea.fecha_asignada = None
    THEN [urgency |-> "no_deadline", score |-> NO_DEADLINE_SCORE,
          reason |-> Reason("Sin fecha limite", None)]
    ELSE LET days_diff == tarea.fecha_asignada - today IN
         IF days_diff < 0
         THEN [urgency |-> "overdue", score |-> OVERDUE_SCORE,
               reason |-> Reason("Vencida hace {} dias", Abs(days_diff))]
         ELSE IF days_diff = 0
         THEN [urgency |-> "due_today", score |-> DUE_TODAY_SCORE,
               reason |-> Reason("Vence hoy", None)]
         ELSE IF days_diff <= 7
         THEN [urgency |-> "due_this_week", score |-> DUE_THIS_WEEK_SCORE,
               reason |-> Reason("Vence en {} dias", days_diff)]
         ELSE IF days_diff <= 14
         THEN [urgency |-> "due_next_week", score |-> DUE_NEXT_WEEK_SCORE,
               reason |-> Reason("Vence en {} dias", days_diff)]
         ELSE [urgency |-> "no_deadline", score |-> NO_DEADLINE_SCORE,
               reason |-> Reason("Vence en {} dias", days_diff)]

\* proyecto.tareas.count()
TareasCount(T, pid) == Cardinality({i \in DOMAIN T : T[i].proyecto = pid})

\* The rule with no lower end of the deadline window (days_to_deadline <= 30)
_is_important_project_past_deadline(proyecto, T, t) ==
    IF proyecto.estado # "en_curso" THEN FALSE
    ELSE IF /\ proyecto.fecha_fin_estimada # None
            /\ proyecto.fecha_fin_estimada - LocalDate(t) <= 30
    THEN TRUE
    ELSE IF TareasCount(T, proyecto.id) >= 5 THEN TRUE
    ELSE FALSE

_is_important_project(proyecto, T, t) ==
    IF proyecto.estado # "en_curso" THEN FALSE
    ELSE IF /\ proyecto.fecha_fin_estimada # None
            /\ 0 <= proyecto.fecha_fin_estimada - LocalDate(t)
            /\ proyecto.fecha_fin_estimada - LocalDate(t) <= 30
    THEN TRUE
    ELSE IF TareasCount(T, proyecto.id) >= 5 THEN TRUE
    ELSE FALSE

\* The age rule with an inclusive threshold (days_old >= 7)
_is_old_task_inclusive(created_date, today) ==
    today - UtcDate(created_date) >= DAYS_THRESHOLD_OLD_TASK

\* The age rule with the creation date taken in the local time zone
_is_old_task_local_date(created_date, today) ==
    today - LocalDate(created_date) > DAYS_THRESHOLD_OLD_TASK

_is_old_task(created_date, today) ==
    LET created_date_only == UtcDate(created_date)
        days_old == today - created_date_only
    IN  days_old > DAYS_THRESHOLD_OLD_TASK

\* The level mapping with a strict Critical threshold (score > 9.0)
_score_to_priority_level_strict(score) ==
    IF score > 9 THEN "critical"
    ELSE IF score >= 7 THEN "high"
    ELSE IF score >= 5 THEN "medium"
    ELSE "low"

_score_to_priority_level(score) ==
    IF score >= 9 THEN "critical"
    ELSE IF score >= 7 THEN "high"
    ELSE IF score >= 5 THEN "medium"
    ELSE "low"

calculate_priority_score(tarea, P, T, t) ==
    LET today == LocalDate(t)
        u == _calculate_urgency_score(tarea, today)
        s1 == 0 + u.score
        r1 == IF u.reason.text # "" THEN <<u.reason>> ELSE <<>>
        imp == /\ tarea.proyecto # None
               /\ _is_important_project(P[tarea.proyecto], T, t)
        s2 == IF imp THEN s1 + IMPORTANT_PROJECT_BONUS ELSE s1
        r2 == IF imp THEN Append(r1, Reason("Proyecto importante: {}", tarea.proyecto)) ELSE r1
        old == /\ tarea.fecha_creacion # None
               /\ _is_old_task(tarea.fecha_creacion, today)
        s3 == IF old THEN s2 + OLD_TASK_BONUS ELSE s2
        r3 == IF old THEN Append(r2, Reason("Tarea antigua (mas de {} dias)", DAYS_THRESHOLD_OLD_TASK)) ELSE r2
    IN  [task_id |-> tarea.id,
         priority_level |-> _score_to_priority_level(s3),
         urgency_level |-> u.urgency,
         score |-> s3,
         reasons |-> r3]

\* TaskPriorityScore.is_critical
is_critical(ps) == ps.priority_level = "critical"

\* TaskPriorityScore.needs_attention
needs_attention(ps) == ps.score >= 7

-----------------------------------------------------------------------------
(* Querysets *)

TituloRank(s) == IF s = "a" THEN 1 ELSE 2

\* Tarea.Meta.ordering = ['usuario', 'fecha_asignada', 'titulo']; a NULL date
\* sorts first (SQLite), rows equal on the three keys come in id order
TareaBefore(a, b) ==
    \/ a.usuario < b.usuario
    \/ /\ a.usuario = b.usuario
       /\ \/ a.fecha_asignada < b.fecha_asignada
          \/ /\ a.fecha_asignada = b.fecha_asignada
             /\ \/ TituloRank(a.titulo) < TituloRank(b.titulo)
                \/ /\ a.titulo = b.titulo
                   /\ a.id < b.id

\* The rows of T with ids in S, in Meta.ordering
TareaQuerySet(T, S) ==
    [k \in 1..Cardinality(S) |->
        T[CHOOSE i \in S : Cardinality({j \in S : TareaBefore(T[j], T[i])}) = k - 1]]

\* The queryset without the filter on the user
UserTasks_all_users(T, usuario) == TareaQuerySet(T, DOMAIN T)

\* Tarea.objects.filter(usuario=usuario)
UserTasks(T, usuario) == TareaQuerySet(T, {i \in DOMAIN T : T[i].usuario = usuario})

\* Proyecto.Meta.ordering = ['usuario', 'fecha_fin_estimada', 'nombre']; the
\* name of a project is its id
ProyectoBefore(a, b) ==
    \/ a.usuario < b.usuario
    \/ /\ a.usuario = b.usuario
       /\ \/ a.fecha_fin_estimada < b.fecha_fin_estimada
          \/ /\ a.fecha_fin_estimada = b.fecha_fin_estimada
             /\ a.id < b.id

\* Proyecto.objects.filter(usuario=usuario)
UserProjects(P, usuario) ==
    LET S == {i \in DOMAIN P : P[i].usuario = usuario} IN
    [k \in 1..Cardinality(S) |->
        P[CHOOSE i \in S : Cardinality({j \in S : ProyectoBefore(P[j], P[i])}) = k - 1]]

-----------------------------------------------------------------------------
(* prioritize_tasks *)

\* An insertion that puts x before the elements of equal score
RECURSIVE StableInsert_before_equal(_, _)
StableInsert_before_equal(sorted, x) ==
    IF sorted = <<>> THEN <<x>>
    ELSE IF Head(sorted).score > x.score
         THEN <<Head(sorted)>> \o StableInsert_before_equal(Tail(sorted), x)
         ELSE <<x>> \o sorted

\* One step of sorted(..., key=score, reverse=True): x goes after every
\* element whose score is not smaller (the sort is stable)
RECURSIVE StableInsert(_, _)
StableInsert(sorted, x) ==
    IF sorted = <<>> THEN <<x>>
    ELSE IF Head(sorted).score >= x.score
         THEN <<Head(sorted)>> \o StableInsert(Tail(sorted), x)
         ELSE <<x>> \o sorted

RECURSIVE sorted_by_score_desc(_)
sorted_by_score_desc(results) ==
    IF results = <<>> THEN <<>>
    ELSE StableInsert(sorted_by_score_desc(SubSeq(results, 1, Len(results) - 1)),
                      results[Len(results)])

IsPending(tarea) == tarea.completada = FALSE

\* queryset.filter(completada=False)
PendingTasks(queryset) == SelectSeq(queryset, IsPending)

\* apps.tasks.business_logic.TaskPrioritizationEngine.prioritize_tasks
prioritize_tasks(queryset, P, T, t) ==
    LET pending_tasks == PendingTasks(queryset)
        results == [k \in 1..Len(pending_tasks) |->
                        calculate_priority_score(pending_tasks[k], P, T, t)]
    IN  sorted_by_score_desc(results)

\* tareas.business_logic.TaskPrioritizationEngine.prioritize_tasks
legacy_prioritize_tasks(tasks, P, T, t) ==
    LET priority_scores == [k \in 1..Len(tasks) |->
                                calculate_priority_score(tasks[k], P, T, t)]
    IN  sorted_by_score_desc(priority_scores)

-----------------------------------------------------------------------------
(* ProjectProgressCalculator *)

\* A float that is a quotient of two integers, kept exact
Ratio(num, den) == [num |-> num, den |-> den]

\* completion_percentage >= n
RatioAtLeast(r, n) == r.num >= n * r.den

\* The assessment with a project that is estimated to end after its planned
\* end never rated better than "poor"
_assess_project_health_behind_schedule(completion_percentage, estimated_completion, planned_end) ==
    IF /\ estimated_completion # None /\ planned_end # None
       /\ estimated_completion > planned_end
       /\ RatioAtLeast(completion_percentage, 25)
    THEN "poor"
    ELSE IF RatioAtLeast(completion_percentage, 90) THEN "excellent"
    ELSE IF RatioAtLeast(completion_percentage, 70) THEN "good"
    ELSE IF RatioAtLeast(completion_percentage, 50) THEN "fair"
    ELSE IF RatioAtLeast(completion_percentage, 25) THEN "poor"
    ELSE "critical"

_assess_project_health(completion_percentage, estimated_completion, planned_end) ==
    IF RatioAtLeast(completion_percentage, 90) THEN "excellent"
    ELSE IF RatioAtLeast(completion_percentage, 70) THEN "good"
    ELSE IF RatioAtLeast(completion_percentage, 50) THEN "fair"
    ELSE IF RatioAtLeast(completion_percentage, 25) THEN "poor"
    ELSE "critical"

\* Python's round(x, ndigits) of the float num / den, in units of 10^-ndigits:
\* the nearest integer to num * 10^ndigits / den, a tie going to the even one
round_half_even(num, den, ndigits) ==
    LET scaled == num * (IF ndigits = 0 THEN 1 ELSE IF ndigits = 1 THEN 10 ELSE 100)
        fl == scaled \div den
        rem2 == 2 * (scaled - fl * den)
    IN  IF rem2 > den \/ (rem2 = den /\ fl % 2 = 1) THEN fl + 1 ELSE fl

\* round() that drops the digits after ndigits
round_truncating(x, ndigits) ==
    Ratio((x.num * (IF ndigits = 1 THEN 10 ELSE 100)) \div x.den,
          IF ndigits = 1 THEN 10 ELSE 100)

\* round(x, ndigits)
round(x, ndigits) ==
    Ratio(round_half_even(x.num, x.den, ndigits), IF ndigits = 1 THEN 10 ELSE 100)

\* The percentage with an empty project counted as complete
basic_completion_percentage_empty_complete(completed_count, total_count) ==
    IF total_count > 0 THEN Ratio(completed_count * 100, total_count)
    ELSE Ratio(100, 1)

\* (completed_count / total_count * 100) if total_count > 0 else 0
basic_completion_percentage(completed_count, total_count) ==
    IF total_count > 0 THEN Ratio(completed_count * 100, total_count)
    ELSE Ratio(0, 1)

DAYS_VELOCITY_WINDOW == 30

\* completed_tasks is the set of ids of the completed tasks of the project
_calculate_velocity(proyecto, completed_tasks, T, t) ==
    LET thirty_days_ago == t - DAYS_VELOCITY_WINDOW * HoursPerDay
        recent_completions ==
            Cardinality({i \in completed_tasks : T[i].fecha_creacion >= thirty_days_ago})
    IN  Ratio(recent_completions, DAYS_VELOCITY_WINDOW)

\* IEEE 754 double arithmetic, for the quotients the calculator forms.  A
\* double has a 53-bit significand; a quotient is rounded to the nearest
\* double.

RECURSIVE Pow2(_)
Pow2(n) == IF n = 0 THEN 1 ELSE 2 * Pow2(n - 1)

\* 2^n modulo 30: 1 for n = 0, then 2, 4, 8, 16 in turn (32 = 30 + 2)
Pow2Mod30(n) == IF n = 0 THEN 1 ELSE <<2, 4, 8, 16>>[((n - 1) % 4) + 1]

\* The e with 2^e <= num / den < 2^(e + 1), for 2^-8 <= num / den < 2^13
FloorLog2(num, den) ==
    CHOOSE e \in (0 - 8)..12 :
        IF e >= 0
        THEN Pow2(e) * den <= num /\ num < 2 * Pow2(e) * den
        ELSE den <= num * Pow2(0 - e) /\ num * Pow2(0 - e - 1) < den

\* The rounding residue for the remainder rem of r * 2^s by 30
ResidueOf(rem) ==
    IF 2 * rem > DAYS_VELOCITY_WINDOW THEN DAYS_VELOCITY_WINDOW - rem ELSE 0 - rem

\* The double r / 30.0 is (r * 2^s + rho) / (30 * 2^s), s = 52 - e chosen so
\* that the significand has 53 bits; rho is the rounding residue, -15 < rho
\* < 15 (a tie cannot occur: r * 2^s is even and 30 * Q + 15 is odd)
VelocityResidue(r) ==
    ResidueOf((r * Pow2Mod30(52 - FloorLog2(r, DAYS_VELOCITY_WINDOW))) % DAYS_VELOCITY_WINDOW)

\* Half the spacing of the doubles below k, relative to the residue: the
\* exponent x of the comparison k * rho > r * 2^x
HalfSpacingExponent(k, r) ==
    FloorLog2(k, 1) - FloorLog2(r, DAYS_VELOCITY_WINDOW) - 1
        - (IF Pow2(FloorLog2(k, 1)) = k THEN 1 ELSE 0)

\* The double nearest to k / (1 + rho/(r*2^s)) is below k
RoundsBelow(k, r, rho, x) ==
    /\ rho > 0
    /\ IF x >= 0 THEN k * rho > r * Pow2(x) ELSE k * rho * Pow2(0 - x) > r

\* int(p / v) for the double v = r / 30.0, r > 0.  The exact quotient of p
\* by the double is k / (1 + rho/(r*2^s)) with k = 30 * p / r.  When k is not
\* an integer the quotient is far from an integer and int() gives floor(k).
\* When k is an integer and rho > 0 the quotient lies below k, and the double
\* nearest to it is below k when the distance exceeds half the spacing of
\* the doubles below k.
TruncatedQuotient(p, r) ==
    IF p = 0 THEN 0
    ELSE IF (DAYS_VELOCITY_WINDOW * p) % r # 0 THEN (DAYS_VELOCITY_WINDOW * p) \div r
    ELSE IF RoundsBelow((DAYS_VELOCITY_WINDOW * p) \div r, r, VelocityResidue(r),
                        HalfSpacingExponent((DAYS_VELOCITY_WINDOW * p) \div r, r))
         THEN (DAYS_VELOCITY_WINDOW * p) \div r - 1
         ELSE (DAYS_VELOCITY_WINDOW * p) \div r

\* int(pending_count / velocity), velocity being the double r / 30.0
int_of_quotient(pending_count, velocity) ==
    CHOOSE days \in {TruncatedQuotient(p, r) : p \in {pending_count}, r \in {velocity.num}} : TRUE

_estimate_completion_date(pending_count, velocity, planned_end, t) ==
    IF velocity.num <= 0 THEN None
    ELSE LET days_needed == int_of_quotient(pending_count, velocity)
             estimated_date == LocalDate(t) + days_needed
         IN  estimated_date

\* The shortlist cut after four tasks
_identify_critical_tasks_top_four(pending_tasks, t) ==
    LET today == LocalDate(t) IN
    [k \in 1..(IF Len(pending_tasks) < 4 THEN Len(pending_tasks) ELSE 4) |->
        LET task == pending_tasks[k]
            days_left == task.fecha_asignada - today
            criticality_reason ==
                IF task.fecha_asignada # None
                THEN IF days_left <= 3 THEN <<"Vence pronto">>
                     ELSE IF days_left < 0 THEN <<"Vencido">>
                     ELSE <<>>
                ELSE <<"Sin fecha limite">>
        IN  [task |-> task.id, reasons |-> criticality_reason]]

\* pending_tasks is the queryset of the pending tasks, in Meta.ordering
_identify_critical_tasks(pending_tasks, t) ==
    LET today == LocalDate(t) IN
    [k \in 1..(IF Len(pending_tasks) < 5 THEN Len(pending_tasks) ELSE 5) |->
        LET task == pending_tasks[k]
            days_left == task.fecha_asignada - today
            criticality_reason ==
                IF task.fecha_asignada # None
                THEN IF days_left <= 3 THEN <<"Vence pronto">>
                     ELSE IF days_left < 0 THEN <<"Vencido">>
                     ELSE <<>>
                ELSE <<"Sin fecha limite">>
        IN  [task |-> task.id, reasons |-> criticality_reason]]

calculate_advanced_progress(proyecto, T, t) ==
    LET all_tasks == {i \in DOMAIN T : T[i].proyecto = proyecto.id}
        completed_tasks == {i \in all_tasks : T[i].completada}
        pending_tasks == TareaQuerySet(T, {i \in all_tasks : ~T[i].completada})
        total_count == Cardinality(all_tasks)
        completed_count == Cardinality(completed_tasks)
        completion_percentage == basic_completion_percentage(completed_count, total_count)
        velocity == _calculate_velocity(proyecto, completed_tasks, T, t)
        estimated_completion ==
            _estimate_completion_date(Len(pending_tasks), velocity,
                                      proyecto.fecha_fin_estimada, t)
        health_status ==
            _assess_project_health(completion_percentage, estimated_completion,
                                   proyecto.fecha_fin_estimada)
        critical_tasks == _identify_critical_tasks(pending_tasks, t)
    IN  [completion_percentage |-> round(completion_percentage, 1),
         velocity |-> round(velocity, 2),
         estimated_completion |-> estimated_completion,
         health_status |-> health_status,
         critical_tasks |-> critical_tasks,
         total_tasks |-> total_count,
         completed_tasks |-> completed_count,
         pending_tasks |-> Len(pending_tasks)]

-----------------------------------------------------------------------------
(* NotificationService *)

Notification(usuario, tipo, subtipo, tarea_relacionada, proyecto_relacionado, fecha_creacion, generated_by) ==
    [usuario |-> usuario, tipo |-> tipo, subtipo |-> subtipo,
     tarea_relacionada |-> tarea_relacionada,
     proyecto_relacionado |-> proyecto_relacionado,
     fecha_creacion |-> fecha_creacion,
     leida |-> FALSE, accionada |-> FALSE,
     generated_by |-> generated_by]

\* Notification.objects.filter(usuario, tarea_relacionada, tipo='task',
\*     subtipo='critical', fecha_creacion__date=timezone.now().date()).first()
existing_today(N, usuario, tarea, t) ==
    \E k \in DOMAIN N :
        /\ N[k].usuario = usuario
        /\ N[k].tarea_relacionada = tarea.id
        /\ N[k].tipo = "task"
        /\ N[k].subtipo = "critical"
        /\ LocalDate(N[k].fecha_creacion) = UtcDate(t)

\* The count of the second query with the window left open at its start
recent_notifications_exclusive(N, usuario, tarea, t) ==
    Cardinality({k \in DOMAIN N :
        /\ N[k].usuario = usuario
        /\ N[k].tarea_relacionada = tarea.id
        /\ N[k].tipo = "task"
        /\ N[k].subtipo = "critical"
        /\ N[k].fecha_creacion > t - 24})

\* The count of the second query with a window of 48 hours
recent_notifications_two_days(N, usuario, tarea, t) ==
    Cardinality({k \in DOMAIN N :
        /\ N[k].usuario = usuario
        /\ N[k].tarea_relacionada = tarea.id
        /\ N[k].tipo = "task"
        /\ N[k].subtipo = "critical"
        /\ N[k].fecha_creacion >= t - 48})

\* Notification.objects.filter(usuario, tarea_relacionada, tipo='task',
\*     subtipo='critical', fecha_creacion__gte=now - timedelta(hours=24)).count()
recent_notifications(N, usuario, tarea, t) ==
    Cardinality({k \in DOMAIN N :
        /\ N[k].usuario = usuario
        /\ N[k].tarea_relacionada = tarea.id
        /\ N[k].tipo = "task"
        /\ N[k].subtipo = "critical"
        /\ N[k].fecha_creacion >= t - 24})

\* Optional[Notification]: <<>> when a duplicate is found, else the new row
_create_critical_task_notification(N, usuario, tarea, task_score, t) ==
    IF existing_today(N, usuario, tarea, t) THEN <<>>
    ELSE IF recent_notifications(N, usuario, tarea, t) > 0 THEN <<>>
    ELSE <<Notification(usuario, "task", "critical", tarea.id, None, t,
                        "TaskPrioritizationEngine")>>

\* Notification.objects.filter(usuario, proyecto_relacionado,
\*     subtipo='critical', fecha_creacion__date=timezone.now().date()).exists()
existing_project_today(N, usuario, proyecto, t) ==
    \E k \in DOMAIN N :
        /\ N[k].usuario = usuario
        /\ N[k].proyecto_relacionado = proyecto.id
        /\ N[k].subtipo = "critical"
        /\ LocalDate(N[k].fecha_creacion) = UtcDate(t)

\* Optional[Notification]: <<>> when a duplicate is found, else the new row
_create_critical_project_notification(N, usuario, proyecto, progress_data, t) ==
    IF existing_project_today(N, usuario, proyecto, t) THEN <<>>
    ELSE <<Notification(usuario, "project", "critical", None, proyecto.id, t,
                        "ProjectProgressCalculator")>>

\* The loop of generate_task_notifications over prioritized_tasks[k..]; the
\* result is the table and the list notifications_created
RECURSIVE TaskLoop(_, _, _, _, _, _, _)
TaskLoop(prioritized_tasks, k, N, created, usuario, T, t) ==
    IF k > Len(prioritized_tasks) THEN [table |-> N, created |-> created]
    ELSE LET task_score == prioritized_tasks[k]
             task == T[task_score.task_id]
             notification ==
                 IF task_score.priority_level = "critical"
                 THEN _create_critical_task_notification(N, usuario, task, task_score, t)
                 ELSE <<>>
         IN  IF notification # <<>>
             THEN TaskLoop(prioritized_tasks, k + 1, N \o notification,
                           created \o notification, usuario, T, t)
             ELSE TaskLoop(prioritized_tasks, k + 1, N, created, usuario, T, t)

\* generate_task_notifications, given the result of prioritize_tasks
TaskNotifications(prioritized_tasks, N, usuario, T, t) ==
    IF UserTasks(T, usuario) = <<>> THEN [table |-> N, created |-> <<>>]
    ELSE TaskLoop(prioritized_tasks, 1, N, <<>>, usuario, T, t)

\* apps.notifications.services.NotificationService.generate_task_notifications
generate_task_notifications(N, usuario, P, T, t) ==
    TaskNotifications(prioritize_tasks(UserTasks(T, usuario), P, T, t), N, usuario, T, t)

\* tareas.notification_service.NotificationService.generate_task_notifications
legacy_generate_task_notifications(N, usuario, P, T, t) ==
    TaskNotifications(legacy_prioritize_tasks(UserTasks(T, usuario), P, T, t), N, usuario, T, t)

\* The loop of generate_project_notifications over user_projects[k..]
RECURSIVE ProjectLoop(_, _, _, _, _, _, _)
ProjectLoop(user_projects, k, N, created, usuario, T, t) ==
    IF k > Len(user_projects) THEN [table |-> N, created |-> created]
    ELSE LET proyecto == user_projects[k]
             progress_data == calculate_advanced_progress(proyecto, T, t)
             notification ==
                 IF progress_data.health_status = "critical"
                 THEN _create_critical_project_notification(N, usuario, proyecto, progress_data, t)
                 ELSE <<>>
         IN  IF notification # <<>>
             THEN ProjectLoop(user_projects, k + 1, N \o notification,
                              created \o notification, usuario, T, t)
             ELSE ProjectLoop(user_projects, k + 1, N, created, usuario, T, t)

generate_project_notifications(N, usuario, P, T, t) ==
    ProjectLoop(UserProjects(P, usuario), 1, N, <<>>, usuario, T, t)

\* The generation that marks the notifications of the user as read on its way
generate_daily_notifications_marking_read(N, usuario, P, T, t) ==
    LET task_notifications == generate_task_notifications(N, usuario, P, T, t)
        project_notifications ==
            generate_project_notifications(task_notifications.table, usuario, P, T, t)
    IN  [table |-> [k \in DOMAIN project_notifications.table |->
                       IF k <= Len(N) /\ N[k].usuario = usuario
                       THEN [N[k] EXCEPT !.leida = TRUE]
                       ELSE project_notifications.table[k]],
         created |-> task_notifications.created \o project_notifications.created]

\* apps.notifications.services.NotificationService.generate_daily_notifications
generate_daily_notifications(N, usuario, P, T, t) ==
    LET task_notifications == generate_task_notifications(N, usuario, P, T, t)
        project_notifications ==
            generate_project_notifications(task_notifications.table, usuario, P, T, t)
    IN  [table |-> project_notifications.table,
         created |-> task_notifications.created \o project_notifications.created]

\* tareas.notification_service.NotificationService.generate_daily_notifications
legacy_generate_daily_notifications(N, usuario, P, T, t) ==
    LET task_notifications == legacy_generate_task_notifications(N, usuario, P, T, t)
        project_notifications ==
            generate_project_notifications(task_notifications.table, usuario, P, T, t)
    IN  [table |-> project_notifications.table,
         created |-> task_notifications.created \o project_notifications.created]

-----------------------------------------------------------------------------
(* Rows *)

Tarea(id, usuario, titulo, fecha_asignada, fecha_creacion, completada, proyecto) ==
    [id |-> id, usuario |-> usuario, titulo |-> titulo,
     fecha_asignada |-> fecha_asignada, fecha_creacion |-> fecha_creacion,
     completada |-> completada, proyecto |-> proyecto]

Proyecto(id, usuario, estado, fecha_fin_estimada) ==
    [id |-> id, usuario |-> usuario, estado |-> estado,
     fecha_fin_estimada |-> fecha_fin_estimada]

NoUrgency == [urgency |-> "", score |-> 0, reason |-> Reason("", None)]
NoProgress ==
    [completion_percentage |-> Ratio(0, 10), velocity |-> Ratio(0, 100),
     estimated_completion |-> None, health_status |-> "", critical_tasks |-> <<>>,
     total_tasks |-> 0, completed_tasks |-> 0, pending_tasks |-> 0]
NoZones == [critical_tasks |-> <<>>, attention_tasks |-> <<>>, future_tasks |-> <<>>]
Op(name, usuario) == [op |-> name, usuario |-> usuario]

-----------------------------------------------------------------------------
(* Scoring one task: the inputs of calculate_priority_score are drawn in   *)
(* the initial state, the actions apply the engine to them.                *)

ScoreNows == {StartNow, StartNow + 12}
DueDates(t) == {None} \cup {LocalDate(t) + d : d \in (0 - MaxDueDays)..MaxDueDays}
CreationTimes(t) == {t - HoursPerDay * a - h : a \in 0..MaxAgeDays, h \in {0, 8}}
EndDates(t) == {None} \cup {LocalDate(t) + d : d \in {0 - 1, 0, 15, 30, 31}}

\* k completed tasks of project 1, ids 2 .. k + 1
FillTasks(k, t) == [i \in 1..k |-> Tarea(i + 1, 1, "b", None, t, TRUE, 1)]

ScoreInit ==
    /\ now \in ScoreNows
    /\ \E due \in DueDates(now), created \in CreationTimes(now) :
          \/ /\ tareas = <<Tarea(1, 1, "a", due, created, FALSE, None)>>
             /\ proyectos = <<>>
          \/ \E estado \in ESTADO_CHOICES, fin \in EndDates(now), k \in {0, MaxFill - 1, MaxFill} :
                /\ tareas = <<Tarea(1, 1, "a", due, created, FALSE, 1)>> \o FillTasks(k, now)
                /\ proyectos = <<Proyecto(1, 1, estado, fin)>>
    /\ notifications = <<>>
    /\ returned = <<>>
    /\ score_result = <<>>
    /\ urgency_result = NoUrgency
    /\ important_result = FALSE
    /\ progress_result = NoProgress
    /\ zones = NoZones
    /\ lastOp = Op("init", None)
    /\ wpc = <<>>
    /\ wloc = <<>>

\* _calculate_urgency_score(tarea, today) on the task of the store
CalculateUrgency ==
    /\ lastOp.op = "init"
    /\ urgency_result' = _calculate_urgency_score(tareas[1], LocalDate(now))
    /\ lastOp' = Op("urgency", None)
    /\ UNCHANGED <<now, tareas, proyectos, notifications, returned, score_result, wpc, wloc,
                   important_result, progress_result, zones>>

\* calculate_priority_score(tarea) on the task of the store
CalculatePriorityScore ==
    /\ lastOp.op = "init"
    /\ score_result' = <<calculate_priority_score(tareas[1], proyectos, tareas, now)>>
    /\ lastOp' = Op("score", None)
    /\ UNCHANGED <<now, tareas, proyectos, notifications, returned, urgency_result, wpc, wloc,
                   important_result, progress_result, zones>>

\* _is_important_project(tarea.proyecto) on the project of the task of the store
IsImportantProject ==
    /\ lastOp.op = "init"
    /\ tareas[1].proyecto # None
    /\ important_result' = _is_important_project(proyectos[tareas[1].proyecto], tareas, now)
    /\ lastOp' = Op("important", None)
    /\ UNCHANGED <<now, tareas, proyectos, notifications, returned, score_result,
                   urgency_result, progress_result, wpc, wloc, zones>>

ScoreNext == CalculateUrgency \/ CalculatePriorityScore \/ IsImportantProject

ScoreSpec == ScoreInit /\ [][ScoreNext]_vars

-----------------------------------------------------------------------------
(* Prioritizing a collection of tasks: the collection is drawn in the      *)
(* initial state, the actions apply prioritize_tasks to the user's         *)
(* queryset.                                                               *)

PrioDueDates(t) == {None} \cup {LocalDate(t) + d : d \in {0 - 2, 0, 3}}
PrioCreationTimes(t) == {t, t - HoursPerDay * (DAYS_THRESHOLD_OLD_TASK + 2)}

PrioTareas(t) ==
    [titulo : Titulos, fecha_asignada : PrioDueDates(t),
     fecha_creacion : PrioCreationTimes(t), completada : BOOLEAN]

PrioritizeInit ==
    /\ now = StartNow + 12
    /\ \E n \in 1..MaxPrioTareas : \E rows \in [1..n -> PrioTareas(now)] :
          tareas = [i \in 1..n |->
                      Tarea(i, 1, rows[i].titulo, rows[i].fecha_asignada,
                            rows[i].fecha_creacion, rows[i].completada, None)]
    /\ proyectos = <<>>
    /\ notifications = <<>>
    /\ returned = <<>>
    /\ score_result = <<>>
    /\ urgency_result = NoUrgency
    /\ important_result = FALSE
    /\ progress_result = NoProgress
    /\ zones = NoZones
    /\ lastOp = Op("init", None)
    /\ wpc = <<>>
    /\ wloc = <<>>

\* apps.tasks: TaskPrioritizationEngine.prioritize_tasks(Tarea.objects.filter(usuario=u))
Prioritize ==
    /\ lastOp.op = "init"
    /\ score_result' = prioritize_tasks(UserTasks(tareas, 1), proyectos, tareas, now)
    /\ lastOp' = Op("prioritize", 1)
    /\ UNCHANGED <<now, tareas, proyectos, notifications, returned, urgency_result, wpc, wloc,
                   important_result, progress_result, zones>>

\* tareas: TaskPrioritizationEngine.prioritize_tasks(Tarea.objects.filter(usuario=u))
LegacyPrioritize ==
    /\ lastOp.op = "init"
    /\ score_result' = legacy_prioritize_tasks(UserTasks(tareas, 1), proyectos, tareas, now)
    /\ lastOp' = Op("legacy_prioritize", 1)
    /\ UNCHANGED <<now, tareas, proyectos, notifications, returned, urgency_result, wpc, wloc,
                   important_result, progress_result, zones>>

PrioritizeNext == Prioritize

PrioritizeSpec == PrioritizeInit /\ [][PrioritizeNext]_vars

LegacyPrioritizeNext == Prioritize \/ LegacyPrioritize

LegacyPrioritizeSpec == PrioritizeInit /\ [][LegacyPrioritizeNext]_vars

-----------------------------------------------------------------------------
(* Progress of one project: the project and the tasks are drawn in the     *)
(* initial state, the action applies calculate_advanced_progress.          *)

\* Rows of a small project: pending tasks of every kind of due date,
\* completed tasks created at, just inside and just outside the start of
\* the 30-day window, and a task of no project
DetailTareas(t) ==
    {[completada |-> FALSE, fecha_asignada |-> due, fecha_creacion |-> t, proyecto |-> 1] :
        due \in {None} \cup {LocalDate(t) + d : d \in {0 - 1, 0, 3, 4}}}
    \cup
    {[completada |-> TRUE, fecha_asignada |-> None, fecha_creacion |-> created, proyecto |-> 1] :
        created \in {t, t - DAYS_VELOCITY_WINDOW * HoursPerDay,
                     t - DAYS_VELOCITY_WINDOW * HoursPerDay - 1}}
    \cup
    {[completada |-> FALSE, fecha_asignada |-> LocalDate(t) - 1, fecha_creacion |-> t,
      proyecto |-> None]}

\* Row i of a project of n tasks: completed, pending without due date, or
\* pending and due the later the smaller its id
OrderTareas(i, n, t) ==
    {[completada |-> TRUE, fecha_asignada |-> None, fecha_creacion |-> t, proyecto |-> 1],
     [completada |-> FALSE, fecha_asignada |-> None, fecha_creacion |-> t, proyecto |-> 1],
     [completada |-> FALSE, fecha_asignada |-> LocalDate(t) + (n - i) - 1,
      fecha_creacion |-> t, proyecto |-> 1]}

\* r completed tasks created now followed by p pending tasks
BulkTareas(r, p, t) ==
    [i \in 1..(r + p) |-> Tarea(i, 1, "a", None, t, i <= r, 1)]

ProgressInit ==
    /\ \/ /\ now \in ScoreNows
          /\ \E estado \in {"en_curso", "planificado"},
                fin \in {None, LocalDate(now) - 1, LocalDate(now) + 10} :
                proyectos = <<Proyecto(1, 1, estado, fin)>>
          /\ \E n \in 0..MaxDetailTareas : \E rows \in [1..n -> DetailTareas(now)] :
                tareas = [i \in 1..n |->
                            Tarea(i, 1, "a", rows[i].fecha_asignada, rows[i].fecha_creacion,
                                  rows[i].completada, rows[i].proyecto)]
       \/ /\ now = StartNow + 12
          /\ proyectos = <<Proyecto(1, 1, "en_curso", LocalDate(now) + 10)>>
          /\ \E n \in (MaxDetailTareas + 1)..MaxOrderTareas :
                \E rows \in [1..n -> UNION {OrderTareas(i, n, now) : i \in 1..n}] :
                   /\ \A i \in 1..n : rows[i] \in OrderTareas(i, n, now)
                   /\ tareas = [i \in 1..n |->
                                  Tarea(i, 1, IF i % 2 = 0 THEN "a" ELSE "b",
                                        rows[i].fecha_asignada, rows[i].fecha_creacion,
                                        rows[i].completada, rows[i].proyecto)]
       \/ /\ now = StartNow + 12
          /\ proyectos = <<Proyecto(1, 1, "en_curso", LocalDate(now) + 10)>>
          /\ \E r \in {1, MaxBulk - 1, MaxBulk}, p \in {0, 1, MaxBulk} :
                tareas = BulkTareas(r, p, now)
       \/ /\ now = StartNow + 12
          /\ proyectos = <<Proyecto(1, 1, "en_curso", LocalDate(now) + 10)>>
          /\ \E n \in {MaxLargeProject - 1, MaxLargeProject} :
                \E r \in {(7 * n) \div 10, (9 * n) \div 10} :
                   tareas = BulkTareas(r, n - r, now)
    /\ notifications = <<>>
    /\ returned = <<>>
    /\ score_result = <<>>
    /\ urgency_result = NoUrgency
    /\ important_result = FALSE
    /\ progress_result = NoProgress
    /\ zones = NoZones
    /\ lastOp = Op("init", None)
    /\ wpc = <<>>
    /\ wloc = <<>>

\* ProjectProgressCalculator.calculate_advanced_progress(proyecto)
CalculateAdvancedProgress ==
    /\ lastOp.op = "init"
    /\ progress_result' = calculate_advanced_progress(proyectos[1], tareas, now)
    /\ lastOp' = Op("progress", None)
    /\ UNCHANGED <<now, tareas, proyectos, notifications, returned, score_result,
                   urgency_result, important_result, wpc, wloc, zones>>

ProgressNext == CalculateAdvancedProgress

ProgressSpec == ProgressInit /\ [][ProgressNext]_vars

-----------------------------------------------------------------------------
(* Claims about the engine *)

Prioritized == lastOp.op \in {"prioritize", "legacy_prioritize"}

\* Number of entries of the result for task id
EntriesFor(id) == Cardinality({k \in DOMAIN score_result : score_result[k].task_id = id})

\* C2: the result of prioritize_tasks has exactly one entry for each pending
\* task of the input and no entry for a completed task.
C2_OnlyPendingTasksScored ==
    Prioritized =>
        \A i \in DOMAIN tareas :
            EntriesFor(i) = IF tareas[i].completada THEN 0 ELSE 1

\* Position of task id in the input collection (the user's queryset)
InputPos(id) ==
    LET qs == UserTasks(tareas, 1) IN CHOOSE k \in DOMAIN qs : qs[k].id = id

\* C7: the result of prioritize_tasks is sorted non-increasing by score, and
\* two tasks of equal score keep the relative order they have in the input.
C7_SortedDescendingAndStable ==
    lastOp.op = "prioritize" =>
        \A i, j \in DOMAIN score_result :
            i < j =>
                /\ score_result[i].score >= score_result[j].score
                /\ score_result[i].score = score_result[j].score =>
                       InputPos(score_result[i].task_id) < InputPos(score_result[j].task_id)

\* Three pending tasks were prioritized, the first two with equal scores
\* and the third with a smaller one
C7_Witness ==
    /\ lastOp.op = "prioritize"
    /\ Len(score_result) = 3
    /\ score_result[1].score = score_result[2].score
    /\ score_result[2].score > score_result[3].score

\* The rule table of the urgency classifier: row k applies to a due date
\* (None if absent) that is d days after today
RowApplies(k, due, d) ==
    CASE k = 1 -> due = None
      [] k = 2 -> due # None /\ d < 0
      [] k = 3 -> due # None /\ d = 0
      [] k = 4 -> due # None /\ 1 <= d /\ d <= 7
      [] k = 5 -> due # None /\ 8 <= d /\ d <= 14
      [] k = 6 -> due # None /\ d > 14

RowUrgency(k) ==
    CASE k = 1 -> "no_deadline" [] k = 2 -> "overdue" [] k = 3 -> "due_today"
      [] k = 4 -> "due_this_week" [] k = 5 -> "due_next_week" [] k = 6 -> "no_deadline"

RowScore(k) ==
    CASE k = 1 -> 2 [] k = 2 -> 10 [] k = 3 -> 8 [] k = 4 -> 6 [] k = 5 -> 4 [] k = 6 -> 2

\* C8: _calculate_urgency_score agrees with the rule table: exactly one row
\* applies to each due date and today, the result has that row's urgency and
\* score, and the reason is not empty.
C8_UrgencyRuleTable ==
    lastOp.op = "urgency" =>
        LET due == tareas[1].fecha_asignada
            d == due - LocalDate(now)
            rows == {k \in 1..6 : RowApplies(k, due, d)}
        IN  /\ Cardinality(rows) = 1
            /\ \A k \in rows :
                  /\ urgency_result.urgency = RowUrgency(k)
                  /\ urgency_result.score = RowScore(k)
            /\ urgency_result.reason.text # ""

\* A task due exactly 7 days from today was classified
C8_Witness ==
    /\ lastOp.op = "urgency"
    /\ tareas[1].fecha_asignada # None
    /\ tareas[1].fecha_asignada - LocalDate(now) = 7
    /\ urgency_result.urgency = "due_this_week"

\* The project of the scored task is important (section 4.2)
SubjectProjectImportant ==
    /\ tareas[1].proyecto # None
    /\ LET p == proyectos[tareas[1].proyecto]
           n == Cardinality({i \in DOMAIN tareas : tareas[i].proyecto = p.id})
       IN  /\ p.estado = "en_curso"
           /\ \/ /\ p.fecha_fin_estimada # None
                 /\ p.fecha_fin_estimada - LocalDate(now) \in 0..30
              \/ n >= 5

\* Age in days of the scored task: today minus the date of its creation
\* timestamp
SubjectAgeDays == LocalDate(now) - UtcDate(tareas[1].fecha_creacion)

SubjectBaseScore ==
    LET due == tareas[1].fecha_asignada IN
    RowScore(CHOOSE k \in 1..6 : RowApplies(k, due, due - LocalDate(now)))

UrgencyTexts == {"Sin fecha limite", "Vencida hace {} dias", "Vence hoy", "Vence en {} dias"}

C10_PriorityLevelThresholds ==
    lastOp.op = "score" =>
        LET ps == score_result[1] IN
        /\ (ps.priority_level = "critical") <=> (ps.score >= 9)
        /\ (ps.priority_level = "high") <=> (7 <= ps.score /\ ps.score < 9)
        /\ (ps.priority_level = "medium") <=> (5 <= ps.score /\ ps.score < 7)
        /\ (ps.priority_level = "low") <=> (ps.score < 5)
        /\ is_critical(ps) <=> (ps.priority_level = "critical")
        /\ needs_attention(ps) <=> (ps.score >= 7)
        /\ needs_attention(ps) <=> (ps.priority_level \in {"critical", "high"})
        /\ is_critical(ps) => needs_attention(ps)

\* A task due today and more than 7 days old was scored exactly 9, Critical
C10_Witness ==
    /\ lastOp.op = "score"
    /\ score_result[1].score = 9
    /\ score_result[1].priority_level = "critical"

\* C11: every task whose due date is before today is scored with urgency
\* Overdue and priority level Critical, is_critical and needs_attention both
\* true, whatever the importance of its project and its age.
C11_OverdueIsCritical ==
    (/\ lastOp.op = "score"
     /\ tareas[1].fecha_asignada # None
     /\ tareas[1].fecha_asignada < LocalDate(now)) =>
        LET ps == score_result[1] IN
        /\ ps.urgency_level = "overdue"
        /\ ps.priority_level = "critical"
        /\ is_critical(ps)
        /\ needs_attention(ps)

\* A task due yesterday, without bonus of project or age, was scored
C11_Witness ==
    /\ lastOp.op = "score"
    /\ tareas[1].fecha_asignada = LocalDate(now) - 1
    /\ ~SubjectProjectImportant
    /\ SubjectAgeDays <= 7
    /\ score_result[1].score = 10
    /\ is_critical(score_result[1])

\* The project of the scored task, and the days from today to its end date
SubjectProject == proyectos[tareas[1].proyecto]
SubjectDaysToDeadline == SubjectProject.fecha_fin_estimada - LocalDate(now)
SubjectTaskCount == Cardinality({i \in DOMAIN tareas : tareas[i].proyecto = SubjectProject.id})

\* C12: _is_important_project is true iff the project is 'en_curso' and (its
\* end date exists and lies 0 to 30 days after today, or it has at least 5
\* tasks); a project not in progress is never important; an in-progress
\* project whose end date has passed or is more than 30 days away is
\* important iff it has at least 5 tasks; a task due today in an in-progress
\* project ending in 15 days scores 8 + 2 = 10, Critical.
C12_ImportantProjectRule ==
    /\ lastOp.op = "important" =>
          /\ important_result <=>
                 /\ SubjectProject.estado = "en_curso"
                 /\ \/ /\ SubjectProject.fecha_fin_estimada # None
                       /\ 0 <= SubjectDaysToDeadline /\ SubjectDaysToDeadline <= 30
                    \/ SubjectTaskCount >= 5
          /\ SubjectProject.estado # "en_curso" => ~important_result
          /\ (/\ SubjectProject.estado = "en_curso"
              /\ SubjectProject.fecha_fin_estimada # None
              /\ (SubjectDaysToDeadline < 0 \/ SubjectDaysToDeadline > 30))
             => (important_result <=> SubjectTaskCount >= 5)
    /\ (/\ lastOp.op = "score"
        /\ tareas[1].fecha_asignada = LocalDate(now)
        /\ tareas[1].proyecto # None
        /\ SubjectProject.estado = "en_curso"
        /\ SubjectProject.fecha_fin_estimada = LocalDate(now) + 15
        /\ SubjectAgeDays <= 7)
       => /\ score_result[1].score = 10
          /\ score_result[1].priority_level = "critical"

\* An in-progress project whose end date passed yesterday was evaluated: it
\* is not important with 4 tasks
C12_Witness ==
    /\ lastOp.op = "important"
    /\ SubjectProject.estado = "en_curso"
    /\ SubjectProject.fecha_fin_estimada # None
    /\ SubjectDaysToDeadline = 0 - 1
    /\ SubjectTaskCount = 4
    /\ ~important_result

-----------------------------------------------------------------------------
(* Claims about the progress calculator *)

ProgressComputed == lastOp.op = "progress"

\* The tasks of the analysed project, its completed and its pending tasks
ProjectRows == {i \in DOMAIN tareas : tareas[i].proyecto = proyectos[1].id}
CompletedRows == {i \in ProjectRows : tareas[i].completada}
PendingRows == {i \in ProjectRows : ~tareas[i].completada}

\* C14: on a project with zero tasks calculate_advanced_progress returns
\* completion_percentage 0.0, velocity 0.0, estimated_completion null,
\* health_status 'critical', the three counts 0 and an empty critical_tasks.
C14_EmptyProject ==
    (ProgressComputed /\ ProjectRows = {}) =>
        /\ progress_result.completion_percentage = Ratio(0, 10)
        /\ progress_result.velocity = Ratio(0, 100)
        /\ progress_result.estimated_completion = None
        /\ progress_result.health_status = "critical"
        /\ progress_result.total_tasks = 0
        /\ progress_result.completed_tasks = 0
        /\ progress_result.pending_tasks = 0
        /\ progress_result.critical_tasks = <<>>

\* The progress of a project without tasks was calculated while the table
\* holds a task of no project
C14_Witness ==
    /\ ProgressComputed
    /\ ProjectRows = {}
    /\ tareas # <<>>
    /\ progress_result.health_status = "critical"

\* C15: total_tasks = completed_tasks + pending_tasks, the counts are those
\* of the project's tasks, and for total > 0 completion_percentage is
\* completed / total * 100 rounded to one decimal (the tenth nearest to it),
\* within [0, 100]; 2 of 4 give 50.0 and 3 of 5 give 60.0.
C15_CountsAndPercentage ==
    ProgressComputed =>
        LET total == Cardinality(ProjectRows)
            completed == Cardinality(CompletedRows)
            pct == progress_result.completion_percentage
        IN  /\ progress_result.total_tasks = total
            /\ progress_result.completed_tasks = completed
            /\ progress_result.pending_tasks = Cardinality(PendingRows)
            /\ progress_result.total_tasks =
                   progress_result.completed_tasks + progress_result.pending_tasks
            /\ pct.den = 10
            /\ 0 <= pct.num /\ pct.num <= 1000
            /\ total > 0 => 2 * Abs(1000 * completed - pct.num * total) <= total
            /\ (total = 4 /\ completed = 2) => pct.num = 500
            /\ (total = 5 /\ completed = 3) => pct.num = 600

\* The progress of a project with 2 of 3 tasks completed was calculated:
\* 66.666... is reported as 66.7
C15_Witness ==
    /\ ProgressComputed
    /\ Cardinality(ProjectRows) = 3
    /\ Cardinality(CompletedRows) = 2
    /\ progress_result.completion_percentage = Ratio(667, 10)

\* The completed tasks of the project created within the last 30 days
RecentCompletions ==
    Cardinality({i \in CompletedRows :
                    tareas[i].fecha_creacion >= now - DAYS_VELOCITY_WINDOW * HoursPerDay})

\* C16: with velocity = (completed tasks created within the last 30 days) /
\* 30, estimated_completion is null iff velocity <= 0, and otherwise is
\* today + trunc(pending / velocity) days; no pending task and a positive
\* velocity give today; 5 tasks, 3 completed in the last 30 days and 2
\* pending give today + 20 days.
C16_EstimatedCompletion ==
    ProgressComputed =>
        LET pending == Cardinality(PendingRows)
            est == progress_result.estimated_completion
        IN  /\ 2 * Abs(100 * RecentCompletions - progress_result.velocity.num * DAYS_VELOCITY_WINDOW)
                   <= DAYS_VELOCITY_WINDOW
            /\ (est = None) <=> (RecentCompletions <= 0)
            /\ RecentCompletions > 0 =>
                   est = LocalDate(now) + (DAYS_VELOCITY_WINDOW * pending) \div RecentCompletions
            /\ (RecentCompletions > 0 /\ pending = 0) => est = LocalDate(now)
            /\ (Cardinality(ProjectRows) = 5 /\ RecentCompletions = 3 /\ pending = 2)
                   => est = LocalDate(now) + 20

\* The health that the thresholds give to completed of total tasks
HealthOf(completed, total) ==
    IF total = 0 THEN "critical"
    ELSE IF 100 * completed >= 90 * total THEN "excellent"
    ELSE IF 100 * completed >= 70 * total THEN "good"
    ELSE IF 100 * completed >= 50 * total THEN "fair"
    ELSE IF 100 * completed >= 25 * total THEN "poor"
    ELSE "critical"

\* C17: health_status is decided by the completion percentage alone (>= 90
\* excellent, >= 70 good, >= 50 fair, >= 25 poor, else critical): it is the
\* same for all projects with the same completed and total counts, whatever
\* their planned end date, estimated completion, velocity or status.
C17_HealthDependsOnPercentageOnly ==
    ProgressComputed =>
        progress_result.health_status =
            HealthOf(Cardinality(CompletedRows), Cardinality(ProjectRows))

\* A project with 2 of 3 tasks completed, estimated to end after its planned
\* end date, was rated 'fair'
C17_Witness ==
    /\ ProgressComputed
    /\ Cardinality(ProjectRows) = 3
    /\ Cardinality(CompletedRows) = 2
    /\ proyectos[1].fecha_fin_estimada # None
    /\ progress_result.estimated_completion # None
    /\ progress_result.estimated_completion > proyectos[1].fecha_fin_estimada
    /\ progress_result.health_status = "fair"

\* The health that the thresholds give to a reported percentage
HealthOfReported(pct) ==
    IF RatioAtLeast(pct, 90) THEN "excellent"
    ELSE IF RatioAtLeast(pct, 70) THEN "good"
    ELSE IF RatioAtLeast(pct, 50) THEN "fair"
    ELSE IF RatioAtLeast(pct, 25) THEN "poor"
    ELSE "critical"

\* C26: the health_status of a result of calculate_advanced_progress is the
\* threshold classification (>= 90 excellent, >= 70 good, >= 50 fair, >= 25
\* poor, else critical) of the completion_percentage of the same result,
\* that is of the percentage rounded to one decimal.
C26_HealthMatchesReportedPercentage ==
    ProgressComputed =>
        progress_result.health_status = HealthOfReported(progress_result.completion_percentage)

\* The reason tags the rule gives to a pending task: 'Vencido' (overdue),
\* 'Vence pronto' (due soon), 'Sin fecha limite' (no deadline)
ReasonTags(tarea) ==
    IF tarea.fecha_asignada = None THEN <<"Sin fecha limite">>
    ELSE IF tarea.fecha_asignada - LocalDate(now) < 0 THEN <<"Vencido">>
    ELSE IF tarea.fecha_asignada - LocalDate(now) <= 3 THEN <<"Vence pronto">>
    ELSE <<>>

\* C18: each task of the critical_tasks shortlist carries the reason tag of
\* the rule: overdue when its due date is before today, due soon when it is
\* due in 0 to 3 days, no deadline when it has no due date, and no tag when
\* it is due in more than 3 days.
C18_ShortlistReasonTags ==
    ProgressComputed =>
        \A k \in DOMAIN progress_result.critical_tasks :
            progress_result.critical_tasks[k].reasons =
                ReasonTags(tareas[progress_result.critical_tasks[k].task])

-----------------------------------------------------------------------------
(* The store: tasks and projects of the users, the clock, and the          *)
(* notification service called by the dashboard.  The tables of tasks and  *)
(* projects are drawn in the initial state.                                *)

StoreDueDates == {LocalDate(StartNow), LocalDate(StartNow) + 1}

StoreProjectRows ==
    {[usuario |-> u, estado |-> e.estado, fecha_fin_estimada |-> e.fin] :
        u \in Users,
        e \in {[estado |-> "en_curso", fin |-> LocalDate(StartNow) + 10],
               [estado |-> "planificado", fin |-> None]}}

\* The projects a task of usuario can be linked to
OwnProjects(P, usuario) == {None} \cup {i \in DOMAIN P : P[i].usuario = usuario}

StoreInit ==
    /\ now = StartNow
    /\ \E n \in 0..MaxProyectos : \E rows \in [1..n -> StoreProjectRows] :
          proyectos = [i \in 1..n |->
                          Proyecto(i, rows[i].usuario, rows[i].estado,
                                   rows[i].fecha_fin_estimada)]
    /\ \E n \in 0..MaxTareas :
          \E rows \in [1..n -> [usuario : Users, fecha_asignada : StoreDueDates,
                                proyecto : {None} \cup (1..MaxProyectos)]] :
             /\ \A i \in 1..n : rows[i].proyecto \in OwnProjects(proyectos, rows[i].usuario)
             /\ tareas = [i \in 1..n |->
                            Tarea(i, rows[i].usuario, "a", rows[i].fecha_asignada,
                                  StartNow, FALSE, rows[i].proyecto)]
    /\ notifications = <<>>
    /\ returned = <<>>
    /\ score_result = <<>>
    /\ urgency_result = NoUrgency
    /\ important_result = FALSE
    /\ progress_result = NoProgress
    /\ zones = NoZones
    /\ lastOp = Op("idle", None)
    /\ wpc = <<>>
    /\ wloc = <<>>

\* Time passes
Tick ==
    /\ now + TickHours <= StartNow + MaxTicks * TickHours
    /\ now' = now + TickHours
    /\ returned' = <<>>
    /\ lastOp' = Op("idle", None)
    /\ UNCHANGED <<tareas, proyectos, notifications, score_result, urgency_result, wpc, wloc,
                   important_result, progress_result, zones>>

\* ToggleTaskStatusView.post
ToggleTaskStatus(pk) ==
    /\ pk \in DOMAIN tareas
    /\ tareas' = [tareas EXCEPT ![pk].completada = ~tareas[pk].completada]
    /\ returned' = <<>>
    /\ lastOp' = Op("idle", None)
    /\ UNCHANGED <<now, proyectos, notifications, score_result, urgency_result, wpc, wloc,
                   important_result, progress_result, zones>>

\* NotificationService.generate_task_notifications(usuario)
GenerateTaskNotifications(usuario) ==
    LET r == generate_task_notifications(notifications, usuario, proyectos, tareas, now) IN
    /\ Len(r.table) <= MaxNotifications
    /\ notifications' = r.table
    /\ returned' = r.created
    /\ lastOp' = Op("generate_task", None)
    /\ UNCHANGED <<now, tareas, proyectos, score_result, urgency_result, wpc, wloc,
                   important_result, progress_result, zones>>

\* The request that also completes the tasks it notifies
GenerateDailyNotifications_completing(usuario) ==
    LET r == generate_daily_notifications(notifications, usuario, proyectos, tareas, now) IN
    /\ Len(r.table) <= MaxNotifications
    /\ notifications' = r.table
    /\ returned' = r.created
    /\ lastOp' = Op("generate_daily", None)
    /\ tareas' = [i \in DOMAIN tareas |->
                     IF \E k \in DOMAIN r.created : r.created[k].tarea_relacionada = i
                     THEN [tareas[i] EXCEPT !.completada = TRUE]
                     ELSE tareas[i]]
    /\ UNCHANGED <<now, proyectos, score_result, urgency_result, wpc, wloc,
                   important_result, progress_result, zones>>

\* DashboardView.get_context_data: NotificationService.generate_daily_notifications(usuario)
GenerateDailyNotifications(usuario) ==
    LET r == generate_daily_notifications(notifications, usuario, proyectos, tareas, now) IN
    /\ Len(r.table) <= MaxNotifications
    /\ notifications' = r.table
    /\ returned' = r.created
    /\ lastOp' = Op("generate_daily", None)
    /\ UNCHANGED <<now, tareas, proyectos, score_result, urgency_result, wpc, wloc,
                   important_result, progress_result, zones>>

\* tareas.views: NotificationService.generate_daily_notifications(usuario)
LegacyGenerateDailyNotifications(usuario) ==
    LET r == legacy_generate_daily_notifications(notifications, usuario, proyectos, tareas, now) IN
    /\ Len(r.table) <= MaxNotifications
    /\ notifications' = r.table
    /\ returned' = r.created
    /\ lastOp' = Op("legacy_generate_daily", None)
    /\ UNCHANGED <<now, tareas, proyectos, score_result, urgency_result, wpc, wloc,
                   important_result, progress_result, zones>>

Next ==
    \/ Tick
    \/ \E pk \in 1..MaxTareas : ToggleTaskStatus(pk)
    \/ \E usuario \in Users : GenerateTaskNotifications(usuario)
    \/ \E usuario \in Users : GenerateDailyNotifications(usuario)

Spec == StoreInit /\ [][Next]_vars

LegacyNext ==
    \/ Tick
    \/ \E pk \in 1..MaxTareas : ToggleTaskStatus(pk)
    \/ \E usuario \in Users : LegacyGenerateDailyNotifications(usuario)

LegacySpec == StoreInit /\ [][LegacyNext]_vars

-----------------------------------------------------------------------------
(* The inbox: the users read and action their notifications while the      *)
(* dashboard goes on generating them.                                      *)

\* The flag set alone (accionada = True, leida left as it is)
mark_as_actioned_only(n) == [n EXCEPT !.accionada = TRUE]

\* Notification.mark_as_read: save(update_fields=['leida'])
mark_as_read(n) == [n EXCEPT !.leida = TRUE]

\* Notification.mark_as_actioned: save(update_fields=['accionada', 'leida'])
mark_as_actioned(n) == [n EXCEPT !.accionada = TRUE, !.leida = TRUE]

\* NotificationRepository.mark_all_as_read:
\* Notification.objects.filter(usuario=user, leida=False).update(leida=True)
mark_all_as_read(N, user) ==
    [k \in DOMAIN N |->
        IF N[k].usuario = user /\ N[k].leida = FALSE
        THEN [N[k] EXCEPT !.leida = TRUE]
        ELSE N[k]]

\* Two pending tasks due yesterday, each of any user, and at most one planned
\* project without tasks
InboxInit ==
    /\ now = StartNow
    /\ \E u1 \in Users, u2 \in Users :
          tareas = <<Tarea(1, u1, "a", LocalDate(now) - 1, now, FALSE, None),
                     Tarea(2, u2, "a", LocalDate(now) - 1, now, FALSE, None)>>
    /\ \/ proyectos = <<>>
       \/ \E u \in Users : proyectos = <<Proyecto(1, u, "planificado", None)>>
    /\ notifications = <<>>
    /\ returned = <<>>
    /\ score_result = <<>>
    /\ urgency_result = NoUrgency
    /\ important_result = FALSE
    /\ progress_result = NoProgress
    /\ zones = NoZones
    /\ lastOp = Op("idle", None)
    /\ wpc = <<>>
    /\ wloc = <<>>

\* NotificationClickView.get (and NotificationViewSet.mark_read): the notification
\* pk of the user of the request is marked read
MarkAsRead(usuario, pk) ==
    /\ pk \in DOMAIN notifications
    /\ notifications[pk].usuario = usuario
    /\ notifications' = [notifications EXCEPT ![pk] = mark_as_read(notifications[pk])]
    /\ returned' = <<>>
    /\ lastOp' = Op("mark_as_read", usuario)
    /\ UNCHANGED <<now, tareas, proyectos, score_result, urgency_result, important_result,
                   progress_result, zones, wpc, wloc>>

\* NotificationViewSet.mark_actioned
MarkAsActioned(usuario, pk) ==
    /\ pk \in DOMAIN notifications
    /\ notifications[pk].usuario = usuario
    /\ ~notifications[pk].accionada
    /\ notifications' = [notifications EXCEPT ![pk] = mark_as_actioned(notifications[pk])]
    /\ returned' = <<>>
    /\ lastOp' = Op("mark_as_actioned", usuario)
    /\ UNCHANGED <<now, tareas, proyectos, score_result, urgency_result, important_result,
                   progress_result, zones, wpc, wloc>>

\* NotificationViewSet.mark_all_read
MarkAllAsRead(usuario) ==
    /\ notifications' = mark_all_as_read(notifications, usuario)
    /\ returned' = <<>>
    /\ lastOp' = Op("mark_all_as_read", usuario)
    /\ UNCHANGED <<now, tareas, proyectos, score_result, urgency_result, important_result,
                   progress_result, zones, wpc, wloc>>

InboxNext ==
    \/ Tick
    \/ \E usuario \in Users : GenerateDailyNotifications(usuario)
    \/ \E usuario \in Users : \E pk \in 1..MaxNotifications : MarkAsRead(usuario, pk)
    \/ \E usuario \in Users : \E pk \in 1..MaxNotifications : MarkAsActioned(usuario, pk)
    \/ \E usuario \in Users : MarkAllAsRead(usuario)

InboxSpec == InboxInit /\ [][InboxNext]_vars

-----------------------------------------------------------------------------
(* The four entry points on one store: calculate_priority_score,           *)
(* prioritize_tasks, calculate_advanced_progress and                       *)
(* generate_daily_notifications are called on a store of tasks and one     *)
(* project drawn in the initial state.                                     *)

FrameDueDates == {None, LocalDate(StartNow) - 1, LocalDate(StartNow) + 1}

FrameInit ==
    /\ now = StartNow + 12
    /\ \E row \in StoreProjectRows :
          proyectos = <<Proyecto(1, row.usuario, row.estado, row.fecha_fin_estimada)>>
    /\ \E n \in 1..MaxTareas :
          \E rows \in [1..n -> [usuario : Users, fecha_asignada : FrameDueDates,
                                completada : BOOLEAN, proyecto : {None, 1}]] :
             /\ \A i \in 1..n : rows[i].proyecto \in OwnProjects(proyectos, rows[i].usuario)
             /\ tareas = [i \in 1..n |->
                            Tarea(i, rows[i].usuario, "a", rows[i].fecha_asignada,
                                  StartNow, rows[i].completada, rows[i].proyecto)]
    /\ notifications = <<>>
    /\ returned = <<>>
    /\ score_result = <<>>
    /\ urgency_result = NoUrgency
    /\ important_result = FALSE
    /\ progress_result = NoProgress
    /\ zones = NoZones
    /\ lastOp = Op("init", None)
    /\ wpc = <<>>
    /\ wloc = <<>>

FrameNext ==
    \/ CalculatePriorityScore
    \/ Prioritize
    \/ CalculateAdvancedProgress
    \/ \E usuario \in Users : GenerateDailyNotifications(usuario)

FrameSpec == FrameInit /\ [][FrameNext]_vars

-----------------------------------------------------------------------------
(* Scoring a record of any shape: the record handed to                     *)
(* calculate_priority_score is a saved task, or an instance that was never *)
(* saved (no id, no creation timestamp).                                   *)

ShapeInit ==
    /\ now \in ScoreNows
    /\ \E due \in DueDates(now) :
          \/ \E created \in CreationTimes(now) :
                tareas = <<Tarea(1, 1, "a", due, created, FALSE, None)>>
          \/ tareas = <<Tarea(None, 1, "a", due, None, FALSE, None)>>
    /\ proyectos = <<>>
    /\ notifications = <<>>
    /\ returned = <<>>
    /\ score_result = <<>>
    /\ urgency_result = NoUrgency
    /\ important_result = FALSE
    /\ progress_result = NoProgress
    /\ zones = NoZones
    /\ lastOp = Op("init", None)
    /\ wpc = <<>>
    /\ wloc = <<>>

ShapeNext == CalculatePriorityScore

ShapeSpec == ShapeInit /\ [][ShapeNext]_vars

-----------------------------------------------------------------------------
(* The dashboard: DashboardView.get_context_data prioritizes the tasks of  *)
(* the user of the request, puts them into three zones and generates the   *)
(* daily notifications.                                                    *)

\* The task of user_tasks with the given id, <<>> if there is none
\* (tasks_dict.get(task_score.task_id))
TasksDictGet(user_tasks, task_id) ==
    SelectSeq(user_tasks, LAMBDA task : task.id = task_id)

TaskData(task, task_score) ==
    [task |-> task.id,
     priority_level |-> task_score.priority_level,
     urgency_level |-> task_score.urgency_level,
     score |-> task_score.score,
     reasons |-> task_score.reasons]

\* The entries of prioritized_task_scores whose task exists and whose level
\* is in levels, in the order of the list
RECURSIVE ZoneOf(_, _, _)
ZoneOf(prioritized_task_scores, user_tasks, levels) ==
    IF prioritized_task_scores = <<>> THEN <<>>
    ELSE LET task_score == Head(prioritized_task_scores)
             task == TasksDictGet(user_tasks, task_score.task_id)
             rest == ZoneOf(Tail(prioritized_task_scores), user_tasks, levels)
         IN  IF task = <<>> THEN rest
             ELSE IF task_score.priority_level \in levels
                  THEN <<TaskData(task[1], task_score)>> \o rest
                  ELSE rest

\* The loop of get_context_data over prioritized_task_scores: Critical goes
\* to critical_tasks, High and Medium to attention_tasks, the rest (Low) to
\* future_tasks
priority_zones(prioritized_task_scores, user_tasks) ==
    [critical_tasks |-> ZoneOf(prioritized_task_scores, user_tasks, {"critical"}),
     attention_tasks |-> ZoneOf(prioritized_task_scores, user_tasks, {"high", "medium"}),
     future_tasks |-> ZoneOf(prioritized_task_scores, user_tasks, {"low"})]

DashDueDates(t) == {None} \cup {LocalDate(t) + d : d \in {0 - 2, 0, 3, 10, 30}}

DashboardInit ==
    /\ now = StartNow + 12
    /\ \E n \in 1..MaxPrioTareas :
          \E rows \in [1..n -> [fecha_asignada : DashDueDates(now),
                                fecha_creacion : PrioCreationTimes(now),
                                completada : BOOLEAN]] :
             tareas = [i \in 1..n |->
                         Tarea(i, 1, "a", rows[i].fecha_asignada,
                               rows[i].fecha_creacion, rows[i].completada, None)]
    /\ proyectos = <<>>
    /\ notifications = <<>>
    /\ returned = <<>>
    /\ score_result = <<>>
    /\ urgency_result = NoUrgency
    /\ important_result = FALSE
    /\ progress_result = NoProgress
    /\ zones = NoZones
    /\ lastOp = Op("init", None)
    /\ wpc = <<>>
    /\ wloc = <<>>

\* apps.tasks.views.DashboardView.get_context_data
Dashboard(usuario) ==
    LET user_tasks == UserTasks(tareas, usuario)
        prioritized_task_scores == prioritize_tasks(user_tasks, proyectos, tareas, now)
        r == generate_daily_notifications(notifications, usuario, proyectos, tareas, now)
    IN  /\ lastOp.op = "init"
        /\ score_result' = prioritized_task_scores
        /\ zones' = priority_zones(prioritized_task_scores, user_tasks)
        /\ notifications' = r.table
        /\ returned' = r.created
        /\ lastOp' = Op("dashboard", usuario)
        /\ UNCHANGED <<now, tareas, proyectos, urgency_result, important_result,
                       progress_result, wpc, wloc>>

\* tareas.views.DashboardView.get_context_data
LegacyDashboard(usuario) ==
    LET user_tasks == UserTasks(tareas, usuario)
        prioritized_task_scores == legacy_prioritize_tasks(user_tasks, proyectos, tareas, now)
        r == legacy_generate_daily_notifications(notifications, usuario, proyectos, tareas, now)
    IN  /\ lastOp.op = "init"
        /\ score_result' = prioritized_task_scores
        /\ zones' = priority_zones(prioritized_task_scores, user_tasks)
        /\ notifications' = r.table
        /\ returned' = r.created
        /\ lastOp' = Op("legacy_dashboard", usuario)
        /\ UNCHANGED <<now, tareas, proyectos, urgency_result, important_result,
                       progress_result, wpc, wloc>>

DashboardNext ==
    \/ \E usuario \in Users : Dashboard(usuario)
    \/ \E usuario \in Users : LegacyDashboard(usuario)

DashboardSpec == DashboardInit /\ [][DashboardNext]_vars

-----------------------------------------------------------------------------
(* One task as the days pass: a pending task without project is scored,    *)
(* a day passes, it is scored again; nobody edits or completes it.         *)

AgingInit ==
    /\ now \in ScoreNows
    /\ \E due \in DueDates(now), created \in CreationTimes(now) :
          tareas = <<Tarea(1, 1, "a", due, created, FALSE, None)>>
    /\ proyectos = <<>>
    /\ notifications = <<>>
    /\ returned = <<>>
    /\ score_result = <<>>
    /\ urgency_result = NoUrgency
    /\ important_result = FALSE
    /\ progress_result = NoProgress
    /\ zones = NoZones
    /\ lastOp = Op("init", None)
    /\ wpc = <<>>
    /\ wloc = <<>>

\* A day passes; the score returned last stays with its caller
DayPasses ==
    /\ now + HoursPerDay <= StartNow + 12 + MaxDaysPassed * HoursPerDay
    /\ now' = now + HoursPerDay
    /\ lastOp' = Op("init", None)
    /\ UNCHANGED <<tareas, proyectos, notifications, returned, score_result, urgency_result,
                   important_result, progress_result, zones, wpc, wloc>>

AgingNext == DayPasses \/ CalculatePriorityScore

AgingSpec == AgingInit /\ [][AgingNext]_vars

-----------------------------------------------------------------------------
(* Day after day: one task stays pending and overdue while the clock runs  *)
(* without end and the dashboard generates the task notifications.  The    *)
(* instants are kept relative to a cycle of CycleDays days: when the clock *)
(* reaches the end of the cycle, the clock and the creation timestamps of  *)
(* the notifications are moved one day back together, which changes no     *)
(* difference between them and no time of day.  The task is overdue and    *)
(* more than 7 days old at every instant of the cycle.  Notifications      *)
(* older than KeepHours are left out of the table: the queries of          *)
(* _create_critical_task_notification read the last 24 hours and the       *)
(* current date only.                                                      *)

CycleDays == 3
KeepHours == 48

\* The rows of N that are at most KeepHours old at t, moved shift hours back
KeptNotifications(N, t, shift) ==
    LET kept == SelectSeq(N, LAMBDA n : n.fecha_creacion >= t - KeepHours) IN
    [k \in DOMAIN kept |-> [kept[k] EXCEPT !.fecha_creacion = @ - shift]]

DailyInit ==
    /\ now = StartNow
    /\ tareas = <<Tarea(1, 1, "a", LocalDate(StartNow) - CycleDays - 1,
                        StartNow - HoursPerDay * (DAYS_THRESHOLD_OLD_TASK + CycleDays + 1),
                        FALSE, None)>>
    /\ proyectos = <<>>
    /\ notifications = <<>>
    /\ returned = <<>>
    /\ score_result = <<>>
    /\ urgency_result = NoUrgency
    /\ important_result = FALSE
    /\ progress_result = NoProgress
    /\ zones = NoZones
    /\ lastOp = Op("idle", None)
    /\ wpc = <<>>
    /\ wloc = <<>>

\* Time passes, without end
DailyTick ==
    LET t == now + TickHours
        shift == IF t >= StartNow + CycleDays * HoursPerDay THEN HoursPerDay ELSE 0
    IN  /\ now' = t - shift
        /\ notifications' = KeptNotifications(notifications, t, shift)
        /\ returned' = <<>>
        /\ lastOp' = Op("idle", None)
        /\ UNCHANGED <<tareas, proyectos, score_result, urgency_result, important_result,
                       progress_result, zones, wpc, wloc>>

DailyNext ==
    \/ DailyTick
    \/ \E usuario \in Users : GenerateTaskNotifications(usuario)

\* The clock never stops, and the dashboard of the owner of the task is
\* visited again and again
DailySpec ==
    /\ DailyInit
    /\ [][DailyNext]_vars
    /\ WF_vars(DailyTick)
    /\ WF_vars(GenerateTaskNotifications(1))

-----------------------------------------------------------------------------
(* Concurrent requests: each worker runs _create_critical_task_notification *)
(* or _create_critical_project_notification for the critical task or       *)
(* project of the store, one database statement at a time.                 *)

Workers == 1..NumWorkers

RaceInit ==
    /\ now = StartNow + 12
    /\ tareas = <<Tarea(1, 1, "a", LocalDate(now) - 1, now, FALSE, None)>>
    /\ proyectos = <<Proyecto(1, 1, "planificado", None)>>
    /\ notifications = <<>>
    /\ returned = <<>>
    /\ score_result = <<>>
    /\ urgency_result = NoUrgency
    /\ important_result = FALSE
    /\ progress_result = NoProgress
    /\ zones = NoZones
    /\ lastOp = Op("idle", None)
    /\ wpc = [w \in Workers |-> "idle"]
    /\ wloc = [w \in Workers |-> None]

\* generate_task_notifications reaches the call for a Critical task
BeginTask(w, pk) ==
    /\ wpc[w] = "idle"
    /\ pk \in DOMAIN tareas
    /\ \E k \in DOMAIN prioritize_tasks(UserTasks(tareas, tareas[pk].usuario), proyectos, tareas, now) :
          LET task_score == prioritize_tasks(UserTasks(tareas, tareas[pk].usuario),
                                             proyectos, tareas, now)[k]
          IN  task_score.task_id = pk /\ task_score.priority_level = "critical"
    /\ wpc' = [wpc EXCEPT ![w] = "existing_today"]
    /\ wloc' = [wloc EXCEPT ![w] = pk]
    /\ UNCHANGED <<now, tareas, proyectos, notifications, returned, score_result,
                   urgency_result, lastOp,
                   important_result, progress_result, zones>>

\* First query of _create_critical_task_notification
TaskQueryToday(w) ==
    /\ wpc[w] = "existing_today"
    /\ LET tarea == tareas[wloc[w]] IN
       wpc' = [wpc EXCEPT ![w] =
                 IF existing_today(notifications, tarea.usuario, tarea, now)
                 THEN "done" ELSE "recent_notifications"]
    /\ UNCHANGED <<now, tareas, proyectos, notifications, returned, score_result,
                   urgency_result, lastOp, wloc,
                   important_result, progress_result, zones>>

\* Second query of _create_critical_task_notification
TaskQueryRecent(w) ==
    /\ wpc[w] = "recent_notifications"
    /\ LET tarea == tareas[wloc[w]] IN
       wpc' = [wpc EXCEPT ![w] =
                 IF recent_notifications(notifications, tarea.usuario, tarea, now) > 0
                 THEN "done" ELSE "create_task"]
    /\ UNCHANGED <<now, tareas, proyectos, notifications, returned, score_result,
                   urgency_result, lastOp, wloc,
                   important_result, progress_result, zones>>

\* Notification.objects.create of _create_critical_task_notification
TaskCreate(w) ==
    /\ wpc[w] = "create_task"
    /\ Len(notifications) < MaxNotifications + NumWorkers
    /\ LET tarea == tareas[wloc[w]] IN
       notifications' = Append(notifications,
           Notification(tarea.usuario, "task", "critical", tarea.id, None, now,
                        "TaskPrioritizationEngine"))
    /\ wpc' = [wpc EXCEPT ![w] = "done"]
    /\ UNCHANGED <<now, tareas, proyectos, returned, score_result, urgency_result,
                   lastOp, wloc,
                   important_result, progress_result, zones>>

\* generate_project_notifications reaches the call for a project of critical health
BeginProject(w, pk) ==
    /\ wpc[w] = "idle"
    /\ pk \in DOMAIN proyectos
    /\ calculate_advanced_progress(proyectos[pk], tareas, now).health_status = "critical"
    /\ wpc' = [wpc EXCEPT ![w] = "existing"]
    /\ wloc' = [wloc EXCEPT ![w] = pk]
    /\ UNCHANGED <<now, tareas, proyectos, notifications, returned, score_result,
                   urgency_result, lastOp,
                   important_result, progress_result, zones>>

\* The query of _create_critical_project_notification
ProjectQuery(w) ==
    /\ wpc[w] = "existing"
    /\ LET proyecto == proyectos[wloc[w]] IN
       wpc' = [wpc EXCEPT ![w] =
                 IF existing_project_today(notifications, proyecto.usuario, proyecto, now)
                 THEN "done" ELSE "create_project"]
    /\ UNCHANGED <<now, tareas, proyectos, notifications, returned, score_result,
                   urgency_result, lastOp, wloc,
                   important_result, progress_result, zones>>

\* Notification.objects.create of _create_critical_project_notification
ProjectCreate(w) ==
    /\ wpc[w] = "create_project"
    /\ Len(notifications) < MaxNotifications + NumWorkers
    /\ LET proyecto == proyectos[wloc[w]] IN
       notifications' = Append(notifications,
           Notification(proyecto.usuario, "project", "critical", None, proyecto.id, now,
                        "ProjectProgressCalculator"))
    /\ wpc' = [wpc EXCEPT ![w] = "done"]
    /\ UNCHANGED <<now, tareas, proyectos, returned, score_result, urgency_result,
                   lastOp, wloc,
                   important_result, progress_result, zones>>

\* The request ends; the worker serves the next one
Finish(w) ==
    /\ wpc[w] = "done"
    /\ wpc' = [wpc EXCEPT ![w] = "idle"]
    /\ wloc' = [wloc EXCEPT ![w] = None]
    /\ UNCHANGED <<now, tareas, proyectos, notifications, returned, score_result,
                   urgency_result, lastOp,
                   important_result, progress_result, zones>>

RaceNext ==
    \E w \in Workers :
        \/ \E pk \in 1..MaxTareas : BeginTask(w, pk)
        \/ TaskQueryToday(w)
        \/ TaskQueryRecent(w)
        \/ TaskCreate(w)
        \/ \E pk \in 1..MaxProyectos : BeginProject(w, pk)
        \/ ProjectQuery(w)
        \/ ProjectCreate(w)
        \/ Finish(w)

RaceSpec == RaceInit /\ [][RaceNext]_vars

-----------------------------------------------------------------------------
(* The notification store fails: a duplicate-detection query of a worker   *)
(* raises.  Neither _create_critical_task_notification nor                 *)
(* _create_critical_project_notification, nor generate_task_notifications, *)
(* generate_project_notifications or generate_daily_notifications, has an  *)
(* exception handler, so the exception leaves them all.                    *)

\* The failed query taken for a query that found no duplicate
TaskQueryRaises_as_no_duplicate(w) ==
    /\ wpc[w] \in {"existing_today", "recent_notifications"}
    /\ wpc' = [wpc EXCEPT ![w] =
                 IF wpc[w] = "existing_today" THEN "recent_notifications" ELSE "create_task"]
    /\ UNCHANGED <<now, tareas, proyectos, notifications, returned, score_result,
                   urgency_result, important_result, progress_result, lastOp, wloc, zones>>

\* A query of _create_critical_task_notification raises
TaskQueryRaises(w) ==
    /\ wpc[w] \in {"existing_today", "recent_notifications"}
    /\ wpc' = [wpc EXCEPT ![w] = "raised"]
    /\ UNCHANGED <<now, tareas, proyectos, notifications, returned, score_result,
                   urgency_result, important_result, progress_result, lastOp, wloc, zones>>

\* The query of _create_critical_project_notification raises
ProjectQueryRaises(w) ==
    /\ wpc[w] = "existing"
    /\ wpc' = [wpc EXCEPT ![w] = "raised"]
    /\ UNCHANGED <<now, tareas, proyectos, notifications, returned, score_result,
                   urgency_result, important_result, progress_result, lastOp, wloc, zones>>

\* The exception reaches the caller of generate_daily_notifications: the
\* request ends with an error
RequestFails(w) ==
    /\ wpc[w] = "raised"
    /\ wpc' = [wpc EXCEPT ![w] = "idle"]
    /\ wloc' = [wloc EXCEPT ![w] = None]
    /\ UNCHANGED <<now, tareas, proyectos, notifications, returned, score_result,
                   urgency_result, important_result, progress_result, lastOp, zones>>

FailureNext ==
    \/ RaceNext
    \/ \E w \in Workers : TaskQueryRaises(w)
    \/ \E w \in Workers : ProjectQueryRaises(w)
    \/ \E w \in Workers : RequestFails(w)

FailureSpec == RaceInit /\ [][FailureNext]_vars

-----------------------------------------------------------------------------
(* Claims about the notification service *)

TaskCritical(n) == n.tipo = "task" /\ n.subtipo = "critical"
ProjectCritical(n) == n.proyecto_relacionado # None /\ n.subtipo = "critical"

\* Two instants fall on the same calendar date (of the users' time zone)
SameCalendarDate(t1, t2) == LocalDate(t1) = LocalDate(t2)

\* An evaluation at t2 falls in the suppression window of a task
\* notification created at t1 <= t2
InTaskWindow(t1, t2) == SameCalendarDate(t1, t2) \/ t2 - t1 <= 24

Generated == lastOp.op \in {"generate_task", "generate_daily", "legacy_generate_daily"}

\* The table as it was before the last generate_* call
TableBefore == SubSeq(notifications, 1, Len(notifications) - Len(returned))

\* C1: once a task-critical notification for (user, task) exists, a later
\* evaluation of that task on the same calendar date or within 24 hours
\* creates and returns nothing: no two task-critical notifications of one
\* (user, task) lie in one suppression window, and no returned notification
\* has an earlier one of its task in its window.
C1_TaskDuplicateSuppression ==
    /\ \A i, j \in DOMAIN notifications :
          (/\ i < j
           /\ TaskCritical(notifications[i]) /\ TaskCritical(notifications[j])
           /\ notifications[i].usuario = notifications[j].usuario
           /\ notifications[i].tarea_relacionada = notifications[j].tarea_relacionada)
          => ~InTaskWindow(notifications[i].fecha_creacion, notifications[j].fecha_creacion)
    /\ Generated =>
          \A k \in DOMAIN returned : \A i \in DOMAIN TableBefore :
              (/\ TaskCritical(returned[k]) /\ TaskCritical(TableBefore[i])
               /\ TableBefore[i].usuario = returned[k].usuario
               /\ TableBefore[i].tarea_relacionada = returned[k].tarea_relacionada)
              => ~InTaskWindow(TableBefore[i].fecha_creacion, now)

\* A generate_* call returned nothing although a task of the user is pending
\* and Critical: its notification was created earlier, exactly 24 hours ago
C1_Witness ==
    /\ Generated
    /\ returned = <<>>
    /\ \E i \in DOMAIN notifications :
          /\ TaskCritical(notifications[i])
          /\ now - notifications[i].fecha_creacion = 24
          /\ LET tarea == tareas[notifications[i].tarea_relacionada] IN
             /\ ~tarea.completada
             /\ calculate_priority_score(tarea, proyectos, tareas, now).priority_level = "critical"

\* C3: no task-critical notification is created for a task that is
\* completed at the moment of creation.
C3_NoNotificationForCompletedTask ==
    Generated =>
        \A k \in DOMAIN returned :
            TaskCritical(returned[k]) => ~tareas[returned[k].tarea_relacionada].completada

\* C4: at most one notification per (user, task) or (user, project) is
\* created inside the suppression window, also when the invocations
\* interleave.
C4_AtMostOneCreatedPerKey ==
    \A i, j \in DOMAIN notifications :
        (/\ i < j
         /\ notifications[i].usuario = notifications[j].usuario
         /\ notifications[i].tipo = notifications[j].tipo
         /\ notifications[i].subtipo = notifications[j].subtipo
         /\ notifications[i].tarea_relacionada = notifications[j].tarea_relacionada
         /\ notifications[i].proyecto_relacionado = notifications[j].proyecto_relacionado)
        => IF notifications[i].tipo = "task"
           THEN ~InTaskWindow(notifications[i].fecha_creacion, notifications[j].fecha_creacion)
           ELSE ~SameCalendarDate(notifications[i].fecha_creacion, notifications[j].fecha_creacion)

\* The task pk is pending, Critical, and has no notification in its window
QualifyingTask(usuario, pk) ==
    /\ tareas[pk].usuario = usuario
    /\ ~tareas[pk].completada
    /\ calculate_priority_score(tareas[pk], proyectos, tareas, now).priority_level = "critical"
    /\ ~\E i \in DOMAIN notifications :
          /\ TaskCritical(notifications[i])
          /\ notifications[i].usuario = usuario
          /\ notifications[i].tarea_relacionada = pk
          /\ InTaskWindow(notifications[i].fecha_creacion, now)

\* The project pk has critical health and no critical notification of today
QualifyingProject(usuario, pk) ==
    /\ proyectos[pk].usuario = usuario
    /\ calculate_advanced_progress(proyectos[pk], tareas, now).health_status = "critical"
    /\ ~\E i \in DOMAIN notifications :
          /\ ProjectCritical(notifications[i])
          /\ notifications[i].usuario = usuario
          /\ notifications[i].proyecto_relacionado = pk
          /\ SameCalendarDate(notifications[i].fecha_creacion, now)

\* The list R is one notification for each qualifying task followed by one
\* for each qualifying project of usuario, and nothing else
ExactlyTheQualifying(R, usuario) ==
    /\ \A k \in DOMAIN R :
          /\ R[k].usuario = usuario
          /\ R[k].subtipo = "critical"
          /\ \/ /\ R[k].tipo = "task"
                /\ R[k].tarea_relacionada \in DOMAIN tareas
                /\ QualifyingTask(usuario, R[k].tarea_relacionada)
             \/ /\ R[k].tipo = "project"
                /\ R[k].proyecto_relacionado \in DOMAIN proyectos
                /\ QualifyingProject(usuario, R[k].proyecto_relacionado)
    /\ \A pk \in DOMAIN tareas :
          QualifyingTask(usuario, pk) =>
              Cardinality({k \in DOMAIN R : R[k].tipo = "task" /\ R[k].tarea_relacionada = pk}) = 1
    /\ \A pk \in DOMAIN proyectos :
          QualifyingProject(usuario, pk) =>
              Cardinality({k \in DOMAIN R : R[k].tipo = "project" /\ R[k].proyecto_relacionado = pk}) = 1
    /\ \A k, l \in DOMAIN R : (R[k].tipo = "project" /\ R[l].tipo = "task") => l < k

\* C5: generate_daily_notifications(user) returns exactly one notification
\* for each pending Critical task of the user without a notification in the
\* suppression window, followed by one for each project of the user with
\* critical health and no critical notification today, and no others.
C5_DailyReturnsExactlyTheQualifying ==
    [][\A usuario \in Users :
          GenerateDailyNotifications(usuario) => ExactlyTheQualifying(returned', usuario)]_vars

\* C6: at most one project-critical notification per (user, project) exists
\* for any calendar day.
C6_OneProjectNotificationPerDay ==
    \A i, j \in DOMAIN notifications :
        (/\ i < j
         /\ ProjectCritical(notifications[i]) /\ ProjectCritical(notifications[j])
         /\ notifications[i].usuario = notifications[j].usuario
         /\ notifications[i].proyecto_relacionado = notifications[j].proyecto_relacionado)
        => ~SameCalendarDate(notifications[i].fecha_creacion, notifications[j].fecha_creacion)

\* C20: when a duplicate-detection query fails while a critical task or
\* project is evaluated, the evaluation creates no notification and the
\* failure leaves generate_task_notifications, generate_project_notifications
\* and generate_daily_notifications: the worker goes on to no later query and
\* to no create, its request ends with the error.
C20_QueryFailurePropagates ==
    [][\A w \in Workers :
          /\ (TaskQueryRaises(w) \/ ProjectQueryRaises(w)) =>
                 /\ wpc'[w] = "raised"
                 /\ notifications' = notifications
          /\ (wpc[w] = "raised" /\ wpc'[w] # "raised") =>
                 /\ wpc'[w] = "idle"
                 /\ notifications' = notifications]_vars

\* A duplicate-detection query raised in the request of one worker, the
\* exception is on its way to the caller, and no notification exists
C20_Witness ==
    \E w \in Workers :
        /\ wpc[w] = "raised"
        /\ wloc[w] = 1
        /\ notifications = <<>>

-----------------------------------------------------------------------------
(* Claims about the inbox *)

\* C21: generate_daily_notifications is append-only: the rows that existed
\* before the call are all still there, in their places and with every field
\* as it was (read and actioned flags, creation timestamp, relations), and
\* the rows added are exactly the notifications the call returns.
C21_GenerationIsAppendOnly ==
    [][\A usuario \in Users :
          GenerateDailyNotifications(usuario) =>
              /\ Len(notifications') = Len(notifications) + Len(returned')
              /\ SubSeq(notifications', 1, Len(notifications)) = notifications
              /\ SubSeq(notifications', Len(notifications) + 1, Len(notifications'))
                     = returned']_vars

\* A call of generate_daily_notifications added a notification to a table
\* that holds an older notification of the same user, read and actioned
C21_Witness ==
    /\ lastOp.op = "generate_daily"
    /\ Len(returned) = 1
    /\ Len(notifications) = 2
    /\ notifications[1].usuario = notifications[2].usuario
    /\ notifications[1].leida /\ notifications[1].accionada
    /\ notifications[1].fecha_creacion < notifications[2].fecha_creacion

\* C24: mark_as_read sets leida and leaves accionada as it is,
\* mark_as_actioned sets accionada and leida; so in every state reached from
\* new notifications by mark_as_read, mark_as_actioned and mark_all_as_read,
\* accionada implies leida, and leida never returns to False.
C24_ReadAndActionedFlags ==
    /\ [](\A k \in DOMAIN notifications : notifications[k].accionada => notifications[k].leida)
    /\ [][\A k \in DOMAIN notifications :
             /\ notifications[k].leida => notifications'[k].leida
             /\ \A usuario \in Users :
                   /\ MarkAsRead(usuario, k) =>
                          /\ notifications'[k].leida
                          /\ notifications'[k].accionada = notifications[k].accionada
                   /\ MarkAsActioned(usuario, k) =>
                          /\ notifications'[k].accionada
                          /\ notifications'[k].leida
                   /\ MarkAllAsRead(usuario) =>
                          /\ notifications[k].usuario = usuario => notifications'[k].leida
                          /\ notifications'[k].accionada = notifications[k].accionada]_vars

\* An unread notification was marked as actioned, next to a notification
\* that is read and not actioned
C24_Witness ==
    /\ lastOp.op = "mark_as_actioned"
    /\ Len(notifications) = 2
    /\ notifications[1].accionada /\ notifications[1].leida
    /\ notifications[2].leida /\ ~notifications[2].accionada

\* The notification n is the critical notification of the same task, or of
\* the same project, and of the same user as m
SameSubject(n, m) ==
    /\ n.usuario = m.usuario
    /\ n.subtipo = "critical" /\ m.subtipo = "critical"
    /\ n.tipo = m.tipo
    /\ n.tarea_relacionada = m.tarea_relacionada
    /\ n.proyecto_relacionado = m.proyecto_relacionado

\* An evaluation at t2 falls in the suppression window of the notification
\* n: the calendar date or 24 hours for a task, the calendar date for a project
InWindow(n, t2) ==
    IF n.tipo = "task" THEN InTaskWindow(n.fecha_creacion, t2)
    ELSE SameCalendarDate(n.fecha_creacion, t2)

\* C27: a notification that was marked read or actioned suppresses like an
\* unread one: generate_daily_notifications creates no notification for a
\* task or project that has a read or actioned critical notification inside
\* the suppression window.
C27_ReadNotificationsStillSuppress ==
    [][\A usuario \in Users :
          GenerateDailyNotifications(usuario) =>
              \A k \in DOMAIN returned' : \A i \in DOMAIN notifications :
                  (/\ notifications[i].leida \/ notifications[i].accionada
                   /\ SameSubject(notifications[i], returned'[k]))
                  => ~InWindow(notifications[i], now)]_vars

\* The notifications of usuario
OwnNotifications(N, usuario) == SelectSeq(N, LAMBDA n : n.usuario = usuario)

\* The notifications of the other users
ForeignNotifications(N, usuario) == SelectSeq(N, LAMBDA n : n.usuario # usuario)

\* The table of tasks with the tasks of the other users completed, without
\* due date and without project
OwnTareas(T, usuario) ==
    [i \in DOMAIN T |->
        IF T[i].usuario = usuario THEN T[i]
        ELSE [T[i] EXCEPT !.completada = TRUE, !.fecha_asignada = None, !.proyecto = None]]

\* The table of projects with the projects of the other users cancelled
OwnProyectos(P, usuario) ==
    [i \in DOMAIN P |->
        IF P[i].usuario = usuario THEN P[i] ELSE [P[i] EXCEPT !.estado = "cancelado"]]

\* C29: every notification created by generate_daily_notifications(U) has
\* usuario = U and relates to a task or project of U; the notifications
\* created are those the call creates when the other users have no
\* notification, no pending task and no active project; and the call leaves
\* the notifications, tasks and projects of the other users as they are.
C29_PerUserIsolation ==
    [][\A usuario \in Users :
          GenerateDailyNotifications(usuario) =>
              /\ \A k \in DOMAIN returned' :
                    /\ returned'[k].usuario = usuario
                    /\ returned'[k].tipo = "task" =>
                           tareas[returned'[k].tarea_relacionada].usuario = usuario
                    /\ returned'[k].tipo = "project" =>
                           proyectos[returned'[k].proyecto_relacionado].usuario = usuario
              /\ returned' =
                     generate_daily_notifications(OwnNotifications(notifications, usuario),
                         usuario, OwnProyectos(proyectos, usuario),
                         OwnTareas(tareas, usuario), now).created
              /\ ForeignNotifications(notifications', usuario)
                     = ForeignNotifications(notifications, usuario)
              /\ tareas' = tareas
              /\ proyectos' = proyectos]_vars

\* generate_daily_notifications of one user created a notification while
\* the other user has a pending Critical task and a notification of the
\* same instant
C29_Witness ==
    /\ lastOp.op = "generate_daily"
    /\ Len(notifications) = 2
    /\ Len(returned) = 1
    /\ notifications[1].usuario # notifications[2].usuario
    /\ notifications[1].fecha_creacion = notifications[2].fecha_creacion
    /\ tareas[1].usuario # tareas[2].usuario

-----------------------------------------------------------------------------
(* Claims about the four entry points *)

\* C22: calculate_priority_score, prioritize_tasks,
\* calculate_advanced_progress and generate_daily_notifications never write
\* a task or a project: the tables of tasks and projects (completion flag,
\* due date, creation date, project link, project status and dates) are the
\* same after each call as before it.
C22_StoresNeverWritten ==
    [][(\/ CalculatePriorityScore
        \/ Prioritize
        \/ CalculateAdvancedProgress
        \/ \E usuario \in Users : GenerateDailyNotifications(usuario))
       => /\ tareas' = tareas
          /\ proyectos' = proyectos]_vars

\* A task was scored and then generate_daily_notifications created a
\* notification for a task and one for the project, on a store that also
\* holds a completed task
C22_Witness ==
    /\ lastOp.op = "generate_daily"
    /\ score_result # <<>>
    /\ Len(returned) = 2
    /\ \E i \in DOMAIN tareas : tareas[i].completada
    /\ \E i \in DOMAIN tareas : ~tareas[i].completada

\* C23: scoring a task record of invalid shape (one with no identifier)
\* fails with an 'invalid task record' error: no TaskPriorityScore is
\* returned for it.
C23_InvalidRecordIsRejected ==
    (lastOp.op # "init" /\ tareas[1].id = None) =>
        /\ lastOp.op = "invalid_task_record"
        /\ score_result = <<>>

-----------------------------------------------------------------------------
(* Claims about the dashboard *)

\* The task id has an entry in the zone
InZone(zone, id) == \E k \in DOMAIN zone : zone[k].task = id

\* Number of entries of the three zones for the task id
ZoneEntries(id) ==
    Cardinality({k \in DOMAIN zones.critical_tasks : zones.critical_tasks[k].task = id})
    + Cardinality({k \in DOMAIN zones.attention_tasks : zones.attention_tasks[k].task = id})
    + Cardinality({k \in DOMAIN zones.future_tasks : zones.future_tasks[k].task = id})

\* C25: the dashboard puts every pending task of the user into exactly one
\* zone: overdue tasks and tasks due today into the critical zone, tasks due
\* this week or next week (in 1 to 14 days) into the attention zone, tasks
\* with plenty of time (due in more than 14 days) into the future zone.
C25_ZonesFollowUrgency ==
    lastOp.op \in {"dashboard", "legacy_dashboard"} =>
        \A i \in DOMAIN tareas :
            (tareas[i].usuario = lastOp.usuario /\ ~tareas[i].completada) =>
                /\ ZoneEntries(i) = 1
                /\ tareas[i].fecha_asignada # None =>
                      LET d == tareas[i].fecha_asignada - LocalDate(now) IN
                      /\ d <= 0 => InZone(zones.critical_tasks, i)
                      /\ (1 <= d /\ d <= 14) => InZone(zones.attention_tasks, i)
                      /\ d > 14 => InZone(zones.future_tasks, i)

-----------------------------------------------------------------------------
(* Claims about the score of a task over time *)

\* C30: for a pending task without project whose due date and creation date
\* stay as they are, the score returned by calculate_priority_score on a
\* later day is not smaller than the score returned on an earlier day, and
\* a task that was Critical is Critical on every later day.
C30_ScoreNeverDecreases ==
    [][(CalculatePriorityScore /\ score_result # <<>>) =>
          /\ score_result'[1].score >= score_result[1].score
          /\ is_critical(score_result[1]) => is_critical(score_result'[1])]_vars

\* After at least one day had passed the task was scored again: it is now
\* due yesterday and 8 days old, and scores 11
C30_Witness ==
    /\ lastOp.op = "score"
    /\ now >= StartNow + HoursPerDay
    /\ tareas[1].fecha_asignada = LocalDate(now) - 1
    /\ SubjectAgeDays = 8
    /\ score_result[1].score = 11

-----------------------------------------------------------------------------
(* Claims about the notifications of a task over time *)

\* The task-critical notifications of (usuario, task pk) in the table
TaskNotificationsOf(usuario, pk) ==
    {k \in DOMAIN notifications :
        /\ TaskCritical(notifications[k])
        /\ notifications[k].usuario = usuario
        /\ notifications[k].tarea_relacionada = pk}

\* C28: suppression is temporary.  A generate_task_notifications call made
\* for a pending Critical task on a later calendar day than, and more than
\* 24 hours after, its most recent task-critical notification creates a new
\* notification for it; and when time goes on and generation runs again and
\* again, a task that stays overdue and pending is notified infinitely
\* often.
C28_NotifiedAgainAndAgain ==
    /\ [][\A usuario \in Users :
             GenerateTaskNotifications(usuario) =>
                 \A pk \in DOMAIN tareas :
                     (/\ tareas[pk].usuario = usuario
                      /\ ~tareas[pk].completada
                      /\ calculate_priority_score(tareas[pk], proyectos, tareas, now).priority_level
                             = "critical"
                      /\ TaskNotificationsOf(usuario, pk) # {}
                      /\ \A k \in TaskNotificationsOf(usuario, pk) :
                            /\ LocalDate(notifications[k].fecha_creacion) < LocalDate(now)
                            /\ now - notifications[k].fecha_creacion > 24)
                     => \E k \in DOMAIN returned' :
                           /\ TaskCritical(returned'[k])
                           /\ returned'[k].tarea_relacionada = pk
                           /\ returned'[k].fecha_creacion = now]_vars
    /\ []<>(lastOp.op = "generate_task" /\ returned # <<>>)

\* generate_task_notifications created a second notification for the task,
\* 30 hours after the first
C28_Witness ==
    /\ lastOp.op = "generate_task"
    /\ Len(returned) = 1
    /\ Len(notifications) = 2
    /\ notifications[1].tarea_relacionada = notifications[2].tarea_relacionada
    /\ notifications[2].fecha_creacion - notifications[1].fecha_creacion = 30
    /\ notifications[2].fecha_creacion = now

====
